---- MODULE Spec2Model ----
(***************************************************************************)
(* Order processing pipeline of the Solana DEX engine: the ingress that    *)
(* admits an order (routes/orders.ts), the BullMQ queue and worker         *)
(* (workers/orderWorker.ts), the mock DEX router (services/dexRouter.ts)   *)
(* and the WebSocket fan-out (services/websocket.ts).                      *)
(*                                                                         *)
(* Every `await` of the source is a point where other jobs and clients may *)
(* run, so each action below is the code between two awaits.               *)
(*                                                                         *)
(* Numbers: amounts are integers in units of 0.001, prices of the pipeline  *)
(* are in units of 0.01, fees and liquidity scores are per mille, slippage  *)
(* is in units of 0.000001. The quote generators work in ticks of           *)
(* 0.00000001, the precision the router rounds prices to.                  *)
(***************************************************************************)
EXTENDS Integers, Sequences, FiniteSets, TLC

\* ------------------------------------------------------------------ bounds
MaxOrders == 1
MaxConcurrentOrders == 2
MaxQueuedOrders == 11
MaxSockets == 1
MaxSubscribers == 2
MaxRooms == 2
MaxSwapFailures == 3
MaxStoreFailures == 1

\* ------------------------------------------------------- program constants
CONCURRENCY == 10
QueueAttempts == 3
DefaultMaxAttempts == 3
BackoffBaseDelay == 1000
RaydiumFee == 3
MeteoraFee == 2
LargeOrderAmount == 100000
MinAmount == 10
MinTokenLength == 32
MaxTokenLength == 50
LiquidityThreshold == 800
RaydiumMinMultiplier == 980
RaydiumMaxMultiplier == 1020
MeteoraMinMultiplier == 970
MeteoraMaxMultiplier == 1020
MinSlippage == -5000
SlippageSpan == 7000
TicksPerUnit == 100000000

\* absent optional values: a string, a number, a transaction reference
Null == "null"
NoNumber == -1
NoTxHash == <<>>

MaxOrderId == IF MaxOrders >= MaxConcurrentOrders THEN MaxOrders ELSE MaxConcurrentOrders

OrderIds == 1..MaxOrderId
JobIds == OrderIds
QueuedIds == 1..MaxQueuedOrders
Sockets == 1..MaxSockets
Subscribers == 1..MaxSubscribers
RoomIds == 1..MaxRooms

SwapErrorMessage == "Swap execution failed on the selected DEX"
StoreErrorMessage == "store update failed"

\* OrderStatusType, and the position of a status in the progression
Statuses == {"pending", "routing", "building", "submitted", "confirmed", "failed"}
Terminal == {"confirmed", "failed"}

Rank(status) ==
    CASE status = "pending" -> 0
      [] status = "routing" -> 1
      [] status = "building" -> 2
      [] status = "submitted" -> 3
      [] OTHER -> 4

\* The emissions of processOrder: "routed" is the second, enriched, routing
\* emission; its status on the wire and in the store is "routing".
Emissions == {"pending", "routing", "routed", "building", "submitted", "confirmed", "failed"}

StatusOf(em) == IF em = "routed" THEN "routing" ELSE em

\* JavaScript truthiness of an optional value, as used by `data?.x && {...}`
TruthyString(v) == v # Null /\ v # ""
TruthyNumber(v) == v # NoNumber /\ v # 0
TruthyTxHash(v) == v # NoTxHash

\* ------------------------------------------------------------- dexRouter
Amounts == {1000}
RaydiumPrices == {10000}
MeteoraPrices == {9900, 10100}
RaydiumLiquidity == {900}
MeteoraLiquidity == {700}

\* values of Math.random(), per mille
Randoms == {0, 250, 500, 999}
SwapRandoms == {1, 999}

\* slippage = -0.005 + Math.random() * 0.007
Slippage(rand) == MinSlippage + (rand * SlippageSpan) \div 1000

Slippages == {Slippage(rand) : rand \in SwapRandoms}

\* inputs of the router on its own: amounts around the large-order limit,
\* quotes within the ranges of getRaydiumQuote and getMeteorQuote for a base
\* rate of 100.00, with equal effective prices (9980 against 9970), effective
\* prices just under and just over 1% apart (10000 against 9891 and 9890), and
\* liquidity scores at, above and below the threshold
RouterAmounts == {1000, 100000, 100001}
RaydiumQuotePrices == {9800, 9980, 10000, 10200}
MeteoraQuotePrices == {9700, 9890, 9891, 9970, 10000, 10200}
RaydiumQuoteLiquidity == {700, 800, 801, 900}
MeteoraQuoteLiquidity == {650, 800, 801, 850}

\* BASE_PRICES[token] || 1.0, in units of 0.00001
BASE_PRICES(token) ==
    CASE token = "SOL" -> 10000000
      [] token = "USDC" -> 100000
      [] token = "BONK" -> 1
      [] token = "RAY" -> 50000
      [] OTHER -> 100000

\* how much tokenOut per 1 tokenIn, in ticks
getBaseExchangeRate(tokenIn, tokenOut) ==
    (BASE_PRICES(tokenIn) * TicksPerUnit) \div BASE_PRICES(tokenOut)

\* mutant: the digits beyond the precision are cut off
ToFixedTruncates(n, d) == n \div d

\* Number(x.toFixed(k)): n / d rounded to the nearest integer
ToFixed(n, d) == (n + d \div 2) \div d

\* minMultiplier + Math.random() * (maxMultiplier - minMultiplier), in millionths
Variance(minMultiplier, maxMultiplier, rand) ==
    minMultiplier * 1000 + rand * (maxMultiplier - minMultiplier)

\* basePrice * variance, in millionths of a tick
getVariedPrice(basePrice, minMultiplier, maxMultiplier, rand) ==
    basePrice * Variance(minMultiplier, maxMultiplier, rand)

RaydiumPrice(tokenIn, tokenOut, rand) ==
    ToFixed(getVariedPrice(getBaseExchangeRate(tokenIn, tokenOut),
                           RaydiumMinMultiplier, RaydiumMaxMultiplier, rand), 1000000)

MeteoraPrice(tokenIn, tokenOut, rand) ==
    ToFixed(getVariedPrice(getBaseExchangeRate(tokenIn, tokenOut),
                           MeteoraMinMultiplier, MeteoraMaxMultiplier, rand), 1000000)

\* tokenIn.includes('So11') || tokenOut.includes('So11')
isSolPair(tokenIn, tokenOut) == tokenIn = "SOL" \/ tokenOut = "SOL"

\* isSolPair ? 0.85 + Math.random() * 0.1 : 0.7 + Math.random() * 0.15
RaydiumLiquidityScore(tokenIn, tokenOut, rand) ==
    IF isSolPair(tokenIn, tokenOut)
    THEN ToFixed(850 * 1000 + rand * 100, 1000)
    ELSE ToFixed(700 * 1000 + rand * 150, 1000)

\* 0.65 + Math.random() * 0.2
MeteoraLiquidityScore(rand) == ToFixed(650 * 1000 + rand * 200, 1000)

getRaydiumQuote(price, liq) ==
    [dex |-> "Raydium", price |-> price, fee |-> RaydiumFee, liquidityScore |-> liq]

getMeteorQuote(price, liq) ==
    [dex |-> "Meteora", price |-> price, fee |-> MeteoraFee, liquidityScore |-> liq]

Effective(q) == q.price * (1000 - q.fee)

Abs(x) == IF x < 0 THEN -x ELSE x
Max(a, b) == IF a >= b THEN a ELSE b

\* mutant: effective prices up to 2% apart count as similar
PriceDiffUnderTwoPercent(r, m) == Abs(r - m) * 100 < 2 * Max(r, m)

\* priceDiffPercent < 1.0, with priceDiffPercent = |r - m| / max(r, m) * 100
PriceDiffUnderOnePercent(r, m) == Abs(r - m) * 100 < Max(r, m)

\* mutant: equal effective prices go to Meteora
BestPriceTieToMeteora(r, m) == IF r > m THEN "Raydium" ELSE "Meteora"

BestPrice(r, m) == IF r >= m THEN "Raydium" ELSE "Meteora"

\* mutant: an order of exactly 100 units counts as large
IsLargeOrderFromLimit(amount) == amount >= LargeOrderAmount

IsLargeOrder(amount) == amount > LargeOrderAmount

\* the venue compareAndRoute selects and the kind of reason it gives: better
\* liquidity at a similar price, or the best effective price
Selection(rq, mq, amount) ==
    LET r == Effective(rq)
        m == Effective(mq)
    IN IF IsLargeOrder(amount)
       THEN IF /\ PriceDiffUnderOnePercent(r, m)
               /\ rq.liquidityScore > LiquidityThreshold
               /\ rq.liquidityScore > mq.liquidityScore
            THEN [dex |-> "Raydium", reason |-> "liquidity"]
            ELSE IF /\ PriceDiffUnderOnePercent(r, m)
                    /\ mq.liquidityScore > LiquidityThreshold
                    /\ mq.liquidityScore > rq.liquidityScore
                 THEN [dex |-> "Meteora", reason |-> "liquidity"]
                 ELSE [dex |-> BestPrice(r, m), reason |-> "price"]
       ELSE [dex |-> BestPrice(r, m), reason |-> "price"]

SelectDex(rq, mq, amount) == Selection(rq, mq, amount).dex

compareAndRoute(rq, mq, amount) ==
    [selectedDex |-> SelectDex(rq, mq, amount), raydiumQuote |-> rq, meteoraQuote |-> mq,
     reason |-> Selection(rq, mq, amount).reason]

NoQuote == [dex |-> Null, price |-> NoNumber, fee |-> NoNumber, liquidityScore |-> NoNumber]
NoRouting ==
    [selectedDex |-> Null, raydiumQuote |-> NoQuote, meteoraQuote |-> NoQuote,
     reason |-> Null]

QuotedPrice(rr) ==
    IF rr.selectedDex = "Raydium" THEN rr.raydiumQuote.price ELSE rr.meteoraQuote.price

\* mutant: the executed price is cut off after 8 decimals
ExecutedPriceTruncated(quotedPrice, slip) ==
    quotedPrice + ToFixedTruncates(quotedPrice * slip, 1000000)

\* Number((quotedPrice * (1 + slippage)).toFixed(8))
ExecutedPrice(quotedPrice, slip) == quotedPrice + ToFixed(quotedPrice * slip, 1000000)


\* a fresh token per call: the venue prefix and the identity of the call
TxHash(dex, j, attempt) == <<dex, j, attempt>>

executeSwap(j, attempt, dex, quotedPrice, success, slip) ==
    [success |-> success, txHash |-> TxHash(dex, j, attempt),
     executedPrice |-> ExecutedPrice(quotedPrice, slip), dex |-> dex, slippage |-> slip]

\* a quote request of one call of compareAndRoute: not made, outstanding, or
\* answered with a quote; `call` tells the calls of a job apart
NoSlot == [state |-> "none", call |-> NoNumber, quote |-> NoQuote]
PendingSlot(call) == [state |-> "pending", call |-> call, quote |-> NoQuote]
DoneSlot(call, quote) == [state |-> "done", call |-> call, quote |-> quote]

NoQuotes == [raydium |-> NoSlot, meteora |-> NoSlot]

\* mutant: the Meteora quote is requested after the Raydium quote has arrived
StartedQuotesOneByOne(call) == [raydium |-> PendingSlot(call), meteora |-> NoSlot]

\* the array handed to Promise.all: both requests are made, neither has answered
StartedQuotes(call) == [raydium |-> PendingSlot(call), meteora |-> PendingSlot(call)]

NoSwap ==
    [success |-> FALSE, txHash |-> NoTxHash, executedPrice |-> NoNumber, dex |-> Null,
     slippage |-> 0]

VARIABLES
    store,          \* order records of the store, by order id
    nextId,         \* next order id the store hands out
    ingress,        \* the POST handler: 0 idle, else the order awaiting queue.add
    replied,        \* order ids answered 201 by POST /api/orders/execute
    lastReply,      \* status code of the last answer of POST /api/orders/execute
    jobs,           \* jobs of the queue, by job id
    pc,             \* position of processOrder for each job
    cur,            \* the emission processOrder is performing
    routingResult,  \* local of processOrder
    swapResult,     \* local of processOrder
    quotes,         \* the two quote requests of compareAndRoute, for each job
    caught,         \* the error caught or thrown by processOrder
    rooms,          \* WebSocketManager.rooms: order id -> set of sockets
    allConnections, \* WebSocketManager.allConnections
    readyState,     \* state of each socket: "new", "open", "closed"
    handlers,       \* order ids whose close handler is registered on a socket
    closeCode,      \* the code the server closed each socket with, if it did
    shutdownStarted,\* shutdown() has called wsManager.cleanup()
    recv,           \* what each socket has received (see Received)
    acked,          \* the `received` of the last ack each socket has received
    swapFailures,   \* number of swaps that failed so far
    storeFailures,  \* number of store updates that failed so far
    attemptNo,      \* number of attempts started for each order
    emitted,        \* messages broadcast in the current attempt of a job
    payloads,       \* the data of each of these messages
    calls,          \* calls of the router made for each job (see NoCalls)
    persisted,      \* statuses written to the store in the current attempt
    everBroadcast,  \* statuses ever broadcast for each order
    everPersisted,  \* statuses ever written to the store for each order
    attemptFailed,  \* the current attempt of a job met a failure
    failedWriteLost \* the store update of `failed` itself failed for a job

vars == <<store, nextId, ingress, replied, lastReply, jobs, pc, cur, routingResult, swapResult,
          quotes,
          caught, rooms, allConnections, readyState, handlers, closeCode,
          shutdownStarted, recv, acked,
          swapFailures, storeFailures, attemptNo, emitted, payloads, calls, persisted,
          everBroadcast, everPersisted, attemptFailed, failedWriteLost>>

storeVars == <<store, nextId>>
ingressVars == <<ingress, replied, lastReply>>
localVars == <<routingResult, swapResult, quotes>>
fanoutVars == <<rooms, allConnections, readyState, handlers, closeCode, shutdownStarted>>
recvVars == <<recv, acked>>
budgetVars == <<swapFailures, storeFailures>>

ghostVars == <<attemptNo, emitted, payloads, calls, persisted, everBroadcast, everPersisted,
              attemptFailed, failedWriteLost>>

\* the calls processOrder has made for a job: of compareAndRoute and of
\* executeSwap in the current attempt, and the calls of executeSwap that
\* returned success = true in all attempts
NoCalls == [route |-> 0, swap |-> 0, successes |-> 0]

NoRecv == [orderId |-> 0, last |-> Null, att |-> 0, rank |-> -1, max |-> -1]

\* ------------------------------------------------------------ initial state
\* no job runs and no client is connected: the locals of the jobs `ids` and
\* the client sockets `sockets` are as constructed
IdleFor(ids, sockets) ==
    /\ pc = [j \in ids |-> "idle"]
    /\ cur = [j \in ids |-> Null]
    /\ routingResult = [j \in ids |-> NoRouting]
    /\ swapResult = [j \in ids |-> NoSwap]
    /\ quotes = [j \in ids |-> NoQuotes]
    /\ caught = [j \in ids |-> Null]
    /\ rooms = <<>>
    /\ allConnections = {}
    /\ readyState = [s \in sockets |-> "new"]
    /\ handlers = [s \in sockets |-> {}]
    /\ closeCode = [s \in sockets |-> NoNumber]
    /\ shutdownStarted = FALSE
    /\ recv = [s \in sockets |-> NoRecv]
    /\ acked = [s \in sockets |-> Null]
    /\ swapFailures = 0
    /\ storeFailures = 0
    /\ attemptNo = [o \in ids |-> 0]
    /\ emitted = [j \in ids |-> <<>>]
    /\ payloads = [j \in ids |-> <<>>]
    /\ calls = [j \in ids |-> NoCalls]
    /\ persisted = [j \in ids |-> <<>>]
    /\ everBroadcast = [o \in ids |-> {}]
    /\ everPersisted = [o \in ids |-> {}]
    /\ attemptFailed = [j \in ids |-> FALSE]
    /\ failedWriteLost = [j \in ids |-> FALSE]

\* the state after construction: no order, no job
InitFor(ids, sockets) ==
    /\ store = <<>>
    /\ nextId = 1
    /\ ingress = 0
    /\ replied = {}
    /\ lastReply = NoNumber
    /\ jobs = <<>>
    /\ IdleFor(ids, sockets)

Init == InitFor(JobIds, Sockets)

\* ------------------------------------------------- ingress (routes/orders)
\* token addresses: the four of TOKEN_ADDRESSES by their symbols, and strings
\* of 31, 32, 50 and 51 characters that are no known token
KnownTokens == {"SOL", "USDC", "BONK", "RAY"}
Tokens == KnownTokens \cup {"T31", "T32", "T50", "T51"}

\* number of characters of the address
TokenLength(token) ==
    CASE token = "SOL" -> 43
      [] token \in {"USDC", "BONK", "RAY"} -> 44
      [] token = "T31" -> 31
      [] token = "T32" -> 32
      [] token = "T50" -> 50
      [] OTHER -> 51

OrderInput(tokenIn, tokenOut, amount) ==
    [tokenIn |-> tokenIn, tokenOut |-> tokenOut, amount |-> amount]

ValidTokenLength(token) ==
    TokenLength(token) >= MinTokenLength /\ TokenLength(token) <= MaxTokenLength

\* mutant: the schema does not compare the two tokens
OrderInputSchemaNoRefine(body) ==
    /\ ValidTokenLength(body.tokenIn)
    /\ ValidTokenLength(body.tokenOut)
    /\ body.amount > 0
    /\ body.amount >= MinAmount

\* OrderInputSchema.safeParse(body).success
OrderInputSchema(body) ==
    /\ ValidTokenLength(body.tokenIn)
    /\ ValidTokenLength(body.tokenOut)
    /\ body.amount > 0
    /\ body.amount >= MinAmount
    /\ body.tokenIn # body.tokenOut

\* the requests of the pipeline: market orders of SOL for USDC
OrderInputs == {OrderInput("SOL", "USDC", amount) : amount \in Amounts}

NewOrder(id, body) ==
    [id |-> id, status |-> "pending", tokenIn |-> body.tokenIn,
     tokenOut |-> body.tokenOut, amount |-> body.amount,
     dex |-> Null, txHash |-> NoTxHash, price |-> NoNumber, error |-> Null]

\* mutant: the job data carry the id of the first order, not of this one
OrderJobDataStaleId(order) ==
    [orderId |-> 1, tokenIn |-> order.tokenIn, tokenOut |-> order.tokenOut,
     amount |-> order.amount]

OrderJobData(order) ==
    [orderId |-> order.id, tokenIn |-> order.tokenIn, tokenOut |-> order.tokenOut,
     amount |-> order.amount]

RECURSIVE Pow(_, _)
Pow(b, n) == IF n = 0 THEN 1 ELSE b * Pow(b, n - 1)

\* backoff: {type: 'exponential', delay: 1000}: the built-in exponential
\* strategy of the queue library waits 2 ^ (attemptsMade - 1) * delay, where
\* attemptsMade counts the attempts that have failed
BackoffDelay(attemptsMade) == Pow(2, attemptsMade - 1) * BackoffBaseDelay

NewJob(data) ==
    [state |-> "waiting", attemptsMade |-> 0, delay |-> 0,
     opts |-> [attempts |-> QueueAttempts], data |-> data]

\* orderQueue.add(name, data, {jobId}): a job id already present is not added again
queueAdd(jobId, data) ==
    IF jobId \in DOMAIN jobs
    THEN jobs
    ELSE [k \in DOMAIN jobs \cup {jobId} |-> IF k = jobId THEN NewJob(data) ELSE jobs[k]]

\* POST /api/orders/execute with a body the schema rejects: the handler
\* answers 400 and returns
PostReject(body) ==
    /\ ingress = 0
    /\ ~OrderInputSchema(body)
    /\ lastReply' = 400
    /\ UNCHANGED <<storeVars, ingress, replied, jobs, pc, cur, localVars, caught,
                   fanoutVars, recvVars, budgetVars, ghostVars>>

\* POST /api/orders/execute with a body the schema accepts, up to
\* `await prisma.order.create`
PostCreate(body) ==
    /\ ingress = 0
    /\ OrderInputSchema(body)
    /\ store' = [o \in DOMAIN store \cup {nextId} |->
                    IF o = nextId THEN NewOrder(nextId, body) ELSE store[o]]
    /\ ingress' = nextId
    /\ nextId' = nextId + 1
    /\ UNCHANGED <<replied, lastReply, jobs, pc, cur, localVars, caught, fanoutVars, recvVars,
                   budgetVars, ghostVars>>

\* ... `await orderQueue.add` succeeds and the handler answers 201
PostEnqueue ==
    /\ ingress # 0
    /\ jobs' = queueAdd(store[ingress].id, OrderJobData(store[ingress]))
    /\ replied' = replied \cup {ingress}
    /\ lastReply' = 201
    /\ ingress' = 0
    /\ UNCHANGED <<storeVars, pc, cur, localVars, caught, fanoutVars, recvVars,
                   budgetVars, ghostVars>>

\* ... `await orderQueue.add` throws and the handler answers 500
PostEnqueueFail ==
    /\ ingress # 0
    /\ lastReply' = 500
    /\ ingress' = 0
    /\ UNCHANGED <<storeVars, replied, jobs, pc, cur, localVars, caught, fanoutVars,
                   recvVars, budgetVars, ghostVars>>

\* ------------------------------------------------- queue (createOrderQueue)
Active == {j \in DOMAIN jobs : jobs[j].state = "active"}

OrderOf(j) == jobs[j].data.orderId

\* mutant: the worker takes a job while CONCURRENCY jobs are being processed
HasFreeSlotOffByOne == Cardinality(Active) <= CONCURRENCY

\* new Worker(..., {concurrency: CONCURRENCY}): the worker takes a job only
\* while fewer than CONCURRENCY jobs are being processed
HasFreeSlot == Cardinality(Active) < CONCURRENCY

\* the worker takes a waiting job and calls processOrder
Dequeue(j) ==
    /\ j \in DOMAIN jobs
    /\ jobs[j].state = "waiting"
    /\ HasFreeSlot
    /\ jobs' = [jobs EXCEPT ![j].state = "active"]
    /\ pc' = [pc EXCEPT ![j] = "update"]
    /\ cur' = [cur EXCEPT ![j] = "pending"]
    /\ routingResult' = [routingResult EXCEPT ![j] = NoRouting]
    /\ swapResult' = [swapResult EXCEPT ![j] = NoSwap]
    /\ UNCHANGED quotes
    /\ caught' = [caught EXCEPT ![j] = Null]
    /\ attemptNo' = [attemptNo EXCEPT ![OrderOf(j)] = @ + 1]
    /\ emitted' = [emitted EXCEPT ![j] = <<>>]
    /\ payloads' = [payloads EXCEPT ![j] = <<>>]
    /\ calls' = [calls EXCEPT ![j].route = 0, ![j].swap = 0]
    /\ persisted' = [persisted EXCEPT ![j] = <<>>]
    /\ attemptFailed' = [attemptFailed EXCEPT ![j] = FALSE]
    /\ UNCHANGED <<storeVars, ingressVars, fanoutVars, recvVars, budgetVars,
                   everBroadcast, everPersisted, failedWriteLost>>

\* processOrder returned: the job is completed
JobCompleted(j) ==
    /\ pc[j] = "returned"
    /\ jobs' = [jobs EXCEPT ![j].state = "completed"]
    /\ pc' = [pc EXCEPT ![j] = "idle"]
    /\ UNCHANGED <<storeVars, ingressVars, cur, localVars, caught, fanoutVars, recvVars,
                   budgetVars, ghostVars>>

\* mutant: the queue allows one attempt more than the worker counts with
ShouldRetryOnceMore(job) == job.attemptsMade + 1 < job.opts.attempts + 1

ShouldRetry(job) == job.attemptsMade + 1 < job.opts.attempts

\* processOrder threw: the queue retries after the backoff, or gives up
JobFailed(j) ==
    /\ pc[j] = "thrown"
    /\ jobs' = [jobs EXCEPT ![j].attemptsMade = @ + 1,
                            ![j].state = IF ShouldRetry(jobs[j]) THEN "delayed" ELSE "failed",
                            ![j].delay = IF ShouldRetry(jobs[j])
                                         THEN BackoffDelay(jobs[j].attemptsMade + 1) ELSE @]
    /\ pc' = [pc EXCEPT ![j] = "idle"]
    /\ UNCHANGED <<storeVars, ingressVars, cur, localVars, caught, fanoutVars, recvVars,
                   budgetVars, ghostVars>>

\* the backoff delay of a retry, jobs[j].delay, has elapsed
BackoffElapsed(j) ==
    /\ j \in DOMAIN jobs
    /\ jobs[j].state = "delayed"
    /\ jobs' = [jobs EXCEPT ![j].state = "waiting"]
    /\ UNCHANGED <<storeVars, ingressVars, pc, cur, localVars, caught, fanoutVars,
                   recvVars, budgetVars, ghostVars>>

\* ------------------------------------------- fan-out (services/websocket)
RoomOf(orderId) == IF orderId \in DOMAIN rooms THEN rooms[orderId] ELSE {}

getRoomCount == Cardinality(DOMAIN rooms)
getConnectionCount == Cardinality(allConnections)
getRoomClientCount(orderId) == Cardinality(RoomOf(orderId))

createStatusMessage(orderId, status, data) ==
    [orderId |-> orderId, status |-> status, data |-> data]

\* rooms after joinRoom(orderId, ws)
JoinedRooms(orderId, ws) ==
    [o \in DOMAIN rooms \cup {orderId} |->
        IF o = orderId THEN RoomOf(orderId) \cup {ws} ELSE rooms[o]]

\* mutant: joinRoom gives way between its two additions, so that the calls that
\* run next find the socket in its room and not among the connections
JoinedConnectionsDeferred(ws) == allConnections

\* allConnections after joinRoom(orderId, ws)
JoinedConnections(ws) == allConnections \cup {ws}

\* mutant: the room is looked at before the socket is taken out of it
RoomsWithoutLateDelete(rs, orderId, ws) ==
    IF orderId \in DOMAIN rs
    THEN IF rs[orderId] = {}
         THEN [o \in DOMAIN rs \ {orderId} |-> rs[o]]
         ELSE [rs EXCEPT ![orderId] = @ \ {ws}]
    ELSE rs

\* the map `rs` of rooms after leaveRoom(orderId, ws): the socket is deleted
\* from the room if there is one, and a room that is then empty is deleted
RoomsWithout(rs, orderId, ws) ==
    IF orderId \in DOMAIN rs
    THEN IF rs[orderId] \ {ws} = {}
         THEN [o \in DOMAIN rs \ {orderId} |-> rs[o]]
         ELSE [rs EXCEPT ![orderId] = @ \ {ws}]
    ELSE rs

\* leaveRoom(orderId, ws) as a function of the fan-out state
leaveRoom(f, orderId, ws) ==
    [rooms |-> RoomsWithout(f.rooms, orderId, ws),
     allConnections |-> f.allConnections \ {ws}]

\* rooms after leaveRoom(orderId, ws): an emptied room is deleted
LeftRooms(orderId, ws) == RoomsWithout(rooms, orderId, ws)

\* mutant: the message goes to every tracked connection, whatever its room
SendCallsToAllConnections(orderId) ==
    [ws \in DOMAIN readyState |->
        Cardinality({w \in allConnections : w = ws /\ readyState[w] = "open"})]

\* the number of ws.send calls broadcast(orderId, message) makes on each socket:
\* one for every element of the room that is open
SendCalls(orderId) ==
    [ws \in DOMAIN readyState |->
        Cardinality({w \in RoomOf(orderId) : w = ws /\ readyState[w] = "open"})]

\* the sockets of the room a broadcast reaches, when `send` throws for `throwing`
Delivered(orderId, throwing) ==
    {ws \in DOMAIN readyState : SendCalls(orderId)[ws] > 0} \ throwing

\* mutant: the broadcast makes the room of the order id when there is none
BroadcastRoomsCreatesEntry(orderId, throwing) ==
    [o \in DOMAIN rooms \cup {orderId} |->
        IF o = orderId THEN Delivered(orderId, throwing) ELSE rooms[o]]

\* rooms after broadcast(orderId, message): every socket not reached is deleted
\* from the room, and the room entry stays
BroadcastRooms(orderId, throwing) ==
    IF orderId \in DOMAIN rooms
    THEN [rooms EXCEPT ![orderId] = Delivered(orderId, throwing)]
    ELSE rooms

\* mutant: a socket deleted from the room stays a tracked connection
BroadcastConnectionsKept(orderId, throwing) == allConnections

BroadcastConnections(orderId, throwing) ==
    allConnections \ (RoomOf(orderId) \ Delivered(orderId, throwing))

\* what a socket has received: the status of the last message, the attempt
\* that sent it, the most advanced status received from that attempt, and the
\* most advanced status received at all
Received(ws, message, att) ==
    [orderId |-> message.orderId,
     last |-> message.status,
     att |-> att,
     rank |-> IF recv[ws].att = att
              THEN Max(recv[ws].rank, Rank(message.status))
              ELSE Rank(message.status),
     max |-> Max(recv[ws].max, Rank(message.status))]

\* mutant: the first send that throws ends the loop over the room, and the
\* sockets after it get nothing
ReachedUntilThrow(orderId, throwing) ==
    IF throwing = {} THEN Delivered(orderId, throwing) ELSE {}

\* the sockets whose ws.send returned: the try block is inside the loop, so a
\* send that throws is caught for its socket and the loop goes on
Reached(orderId, throwing) == Delivered(orderId, throwing)

\* wsManager.broadcast(orderId, message)
broadcast(orderId, message, throwing) ==
    /\ rooms' = BroadcastRooms(orderId, throwing)
    /\ allConnections' = BroadcastConnections(orderId, throwing)
    /\ recv' = [ws \in DOMAIN recv |->
                  IF ws \in Reached(orderId, throwing)
                  THEN Received(ws, message, attemptNo[orderId]) ELSE recv[ws]]
    /\ UNCHANGED <<readyState, handlers, closeCode, shutdownStarted, acked>>

\* messages a client sends on its socket: JSON texts and one that is not JSON
InboundMessages ==
    {[json |-> TRUE, data |-> "cancel"], [json |-> TRUE, data |-> "ping"],
     [json |-> FALSE, data |-> "{"]}

\* mutant: the ack goes to every socket of the rooms the sender is in
AckRecipientsRoom(ws) == {ws} \cup UNION {rooms[o] : o \in {r \in DOMAIN rooms : ws \in rooms[r]}}

\* socket.send(...) in the message handler: the socket the message came on
AckRecipients(ws) == {ws}

\* socket.on('message') of GET /ws/:orderId: a message that parses as JSON is
\* echoed to the sender in an ack, any other is ignored
WsMessage(ws, message) ==
    /\ readyState[ws] = "open"
    /\ handlers[ws] # {}
    /\ acked' = [s \in DOMAIN acked |->
                    IF message.json /\ s \in AckRecipients(ws) /\ readyState[s] = "open"
                    THEN message.data ELSE acked[s]]
    /\ UNCHANGED <<storeVars, ingressVars, jobs, pc, cur, localVars, caught, fanoutVars,
                   recv, budgetVars, ghostVars>>

\* GET /ws/:orderId: a client connects and joins the room of an order id
WsConnect(ws, orderId) ==
    /\ readyState[ws] = "new"
    /\ rooms' = JoinedRooms(orderId, ws)
    /\ allConnections' = JoinedConnections(ws)
    /\ handlers' = [handlers EXCEPT ![ws] = @ \cup {orderId}]
    /\ readyState' = [readyState EXCEPT ![ws] = "open"]
    /\ UNCHANGED <<storeVars, ingressVars, jobs, pc, cur, localVars, caught, closeCode,
                   shutdownStarted, recvVars, budgetVars, ghostVars>>

\* wsManager.joinRoom(orderId, ws) called for a socket that is connected
\* already, which puts the socket into one more room
JoinRoom(ws, orderId) ==
    /\ readyState[ws] = "open"
    /\ rooms' = JoinedRooms(orderId, ws)
    /\ allConnections' = JoinedConnections(ws)
    /\ handlers' = [handlers EXCEPT ![ws] = @ \cup {orderId}]
    /\ UNCHANGED <<storeVars, ingressVars, jobs, pc, cur, localVars, caught, readyState,
                   closeCode, shutdownStarted, recvVars, budgetVars, ghostVars>>

\* wsManager.leaveRoom(orderId, ws) called directly, for any socket and room
LeaveRoom(ws, orderId) ==
    /\ rooms' = leaveRoom([rooms |-> rooms, allConnections |-> allConnections],
                          orderId, ws).rooms
    /\ allConnections' = leaveRoom([rooms |-> rooms, allConnections |-> allConnections],
                                   orderId, ws).allConnections
    /\ UNCHANGED <<storeVars, ingressVars, jobs, pc, cur, localVars, caught, readyState,
                   handlers, closeCode, shutdownStarted, recvVars, budgetVars, ghostVars>>

\* the connection of a client goes away; its close event is still to come
WsClose(ws) ==
    /\ readyState[ws] = "open"
    /\ readyState' = [readyState EXCEPT ![ws] = "closed"]
    /\ UNCHANGED <<storeVars, ingressVars, jobs, pc, cur, localVars, caught, rooms,
                   allConnections, handlers, closeCode, shutdownStarted, recvVars,
                   budgetVars, ghostVars>>

\* ws.on('close') registered by joinRoom: leaveRoom(orderId, ws)
WsCloseEvent(ws, orderId) ==
    /\ readyState[ws] = "closed"
    /\ orderId \in handlers[ws]
    /\ rooms' = LeftRooms(orderId, ws)
    /\ allConnections' = allConnections \ {ws}
    /\ handlers' = [handlers EXCEPT ![ws] = @ \ {orderId}]
    /\ UNCHANGED <<storeVars, ingressVars, jobs, pc, cur, localVars, caught, readyState,
                   closeCode, shutdownStarted, recvVars, budgetVars, ghostVars>>

\* ws.on('error') registered by joinRoom: leaveRoom(orderId, ws); the close
\* event of the socket is still to come
WsErrorEvent(ws, orderId) ==
    /\ readyState[ws] = "closed"
    /\ orderId \in handlers[ws]
    /\ rooms' = leaveRoom([rooms |-> rooms, allConnections |-> allConnections],
                          orderId, ws).rooms
    /\ allConnections' = leaveRoom([rooms |-> rooms, allConnections |-> allConnections],
                                   orderId, ws).allConnections
    /\ UNCHANGED <<storeVars, ingressVars, jobs, pc, cur, localVars, caught, readyState,
                   handlers, closeCode, shutdownStarted, recvVars, budgetVars, ghostVars>>

NormalClosure == 1000

\* mutant: cleanup closes the sockets and forgets to clear the rooms
CleanupKeepsRooms ==
    /\ ~shutdownStarted
    /\ shutdownStarted' = TRUE
    /\ readyState' = [ws \in DOMAIN readyState |->
                        IF ws \in allConnections /\ readyState[ws] = "open"
                        THEN "closed" ELSE readyState[ws]]
    /\ closeCode' = [ws \in DOMAIN closeCode |->
                       IF ws \in allConnections /\ readyState[ws] = "open"
                       THEN NormalClosure ELSE closeCode[ws]]
    /\ allConnections' = {}
    /\ UNCHANGED <<storeVars, ingressVars, jobs, pc, cur, localVars, caught, rooms,
                   handlers, recvVars, budgetVars, ghostVars>>

\* wsManager.cleanup(), called by shutdown(): every tracked socket gets
\* ws.close(1000, ...), which closes the open ones, and both collections are
\* cleared; the close events of the sockets are still to come
Cleanup ==
    /\ ~shutdownStarted
    /\ shutdownStarted' = TRUE
    /\ readyState' = [ws \in DOMAIN readyState |->
                        IF ws \in allConnections /\ readyState[ws] = "open"
                        THEN "closed" ELSE readyState[ws]]
    /\ closeCode' = [ws \in DOMAIN closeCode |->
                       IF ws \in allConnections /\ readyState[ws] = "open"
                       THEN NormalClosure ELSE closeCode[ws]]
    /\ rooms' = <<>>
    /\ allConnections' = {}
    /\ UNCHANGED <<storeVars, ingressVars, jobs, pc, cur, localVars, caught, handlers,
                   recvVars, budgetVars, ghostVars>>

\* ------------------------------------------------ worker (processOrder)
NoData ==
    [dex |-> Null, txHash |-> NoTxHash, price |-> NoNumber, error |-> Null]

\* mutant: the failed emission passes no error text to the store
UpdateDataWithoutError(j, em) ==
    CASE em = "routed" -> [NoData EXCEPT !.dex = routingResult[j].selectedDex]
      [] em = "confirmed" -> [NoData EXCEPT !.dex = swapResult[j].dex,
                                            !.txHash = swapResult[j].txHash,
                                            !.price = swapResult[j].executedPrice]
      [] OTHER -> NoData

\* mutant: the routing update already writes the price the venue quoted
UpdateDataQuotedPriceAtRouting(j, em) ==
    CASE em = "routed" -> [NoData EXCEPT !.dex = routingResult[j].selectedDex,
                                         !.price = QuotedPrice(routingResult[j])]
      [] em = "confirmed" -> [NoData EXCEPT !.dex = swapResult[j].dex,
                                            !.txHash = swapResult[j].txHash,
                                            !.price = swapResult[j].executedPrice]
      [] em = "failed" -> [NoData EXCEPT !.error = caught[j]]
      [] OTHER -> NoData

\* the `data` argument of each updateOrderStatus call of processOrder
UpdateData(j, em) ==
    CASE em = "routed" -> [NoData EXCEPT !.dex = routingResult[j].selectedDex]
      [] em = "confirmed" -> [NoData EXCEPT !.dex = swapResult[j].dex,
                                            !.txHash = swapResult[j].txHash,
                                            !.price = swapResult[j].executedPrice]
      [] em = "failed" -> [NoData EXCEPT !.error = caught[j]]
      [] OTHER -> NoData

NoWsData ==
    [dex |-> Null, raydiumPrice |-> NoNumber, meteoraPrice |-> NoNumber,
     txHash |-> NoTxHash, executedPrice |-> NoNumber, error |-> Null, defined |-> FALSE]

RoutedWsData(rr) ==
    [NoWsData EXCEPT !.defined = TRUE, !.dex = rr.selectedDex,
                     !.raydiumPrice = rr.raydiumQuote.price,
                     !.meteoraPrice = rr.meteoraQuote.price]

\* mutant: the confirmed message carries the swap and not the quotes
WsDataConfirmedWithoutQuotes(j, em) ==
    CASE em \in {"routed", "building", "submitted"} -> RoutedWsData(routingResult[j])
      [] em = "confirmed" ->
            [NoWsData EXCEPT !.defined = TRUE, !.dex = swapResult[j].dex,
                             !.txHash = swapResult[j].txHash,
                             !.executedPrice = swapResult[j].executedPrice]
      [] em = "failed" -> [NoWsData EXCEPT !.defined = TRUE, !.error = caught[j]]
      [] OTHER -> NoWsData

\* mutant: the confirmed message reports the executed price as Raydium's quote
WsDataConfirmedQuotesExecuted(j, em) ==
    CASE em \in {"routed", "building", "submitted"} -> RoutedWsData(routingResult[j])
      [] em = "confirmed" ->
            [RoutedWsData(routingResult[j]) EXCEPT !.dex = swapResult[j].dex,
                                                   !.txHash = swapResult[j].txHash,
                                                   !.executedPrice = swapResult[j].executedPrice,
                                                   !.raydiumPrice = swapResult[j].executedPrice]
      [] em = "failed" -> [NoWsData EXCEPT !.defined = TRUE, !.error = caught[j]]
      [] OTHER -> NoWsData

\* the `wsData` argument of each updateOrderStatus call of processOrder
WsData(j, em) ==
    CASE em \in {"routed", "building", "submitted"} -> RoutedWsData(routingResult[j])
      [] em = "confirmed" ->
            [RoutedWsData(routingResult[j]) EXCEPT !.dex = swapResult[j].dex,
                                                   !.txHash = swapResult[j].txHash,
                                                   !.executedPrice = swapResult[j].executedPrice]
      [] em = "failed" -> [NoWsData EXCEPT !.defined = TRUE, !.error = caught[j]]
      [] OTHER -> NoWsData

\* mutant: the update writes all four fields, empty where none was supplied
UpdatedOrderWritesEveryField(order, status, data) ==
    [order EXCEPT !.status = status,
                  !.dex = data.dex,
                  !.txHash = data.txHash,
                  !.price = data.price,
                  !.error = data.error]

\* mutant: the update writes the fields and leaves the status
UpdatedOrderKeepsStatus(order, status, data) ==
    [order EXCEPT !.dex = IF TruthyString(data.dex) THEN data.dex ELSE @,
                  !.txHash = IF TruthyTxHash(data.txHash) THEN data.txHash ELSE @,
                  !.price = IF TruthyNumber(data.price) THEN data.price ELSE @,
                  !.error = IF TruthyString(data.error) THEN data.error ELSE @]

\* prisma.order.update({where: {id}, data: {status, ...truthy fields}})
UpdatedOrder(order, status, data) ==
    [order EXCEPT !.status = status,
                  !.dex = IF TruthyString(data.dex) THEN data.dex ELSE @,
                  !.txHash = IF TruthyTxHash(data.txHash) THEN data.txHash ELSE @,
                  !.price = IF TruthyNumber(data.price) THEN data.price ELSE @,
                  !.error = IF TruthyString(data.error) THEN data.error ELSE @]

MaxAttemptsOf(job) ==
    IF TruthyNumber(job.opts.attempts) THEN job.opts.attempts ELSE DefaultMaxAttempts

\* mutant: the attempts are counted from one, so that no attempt is ever final
IsFinalAttemptCountsFromOne(job) == job.attemptsMade >= MaxAttemptsOf(job)

\* mutant: the last but one attempt already counts as final
IsFinalAttemptOffByOne(job) == job.attemptsMade + 1 >= MaxAttemptsOf(job) - 1

IsFinalAttempt(job) == job.attemptsMade + 1 >= MaxAttemptsOf(job)

\* mutant: the catch block does not re-throw on an attempt that is not final
CatchSwallows(j, errorMessage) ==
    /\ caught' = [caught EXCEPT ![j] = errorMessage]
    /\ attemptFailed' = [attemptFailed EXCEPT ![j] = TRUE]
    /\ IF IsFinalAttempt(jobs[j])
       THEN pc' = [pc EXCEPT ![j] = "update"] /\ cur' = [cur EXCEPT ![j] = "failed"]
       ELSE pc' = [pc EXCEPT ![j] = "returned"] /\ UNCHANGED cur

\* mutant: the catch block emits `failed` on every failed attempt
CatchAlwaysMarksFailed(j, errorMessage) ==
    /\ caught' = [caught EXCEPT ![j] = errorMessage]
    /\ attemptFailed' = [attemptFailed EXCEPT ![j] = TRUE]
    /\ pc' = [pc EXCEPT ![j] = "update"]
    /\ cur' = [cur EXCEPT ![j] = "failed"]

\* the catch block of processOrder up to its first await: emit `failed` on the
\* final attempt, otherwise re-throw at once
Catch(j, errorMessage) ==
    /\ caught' = [caught EXCEPT ![j] = errorMessage]
    /\ attemptFailed' = [attemptFailed EXCEPT ![j] = TRUE]
    /\ IF IsFinalAttempt(jobs[j])
       THEN pc' = [pc EXCEPT ![j] = "update"] /\ cur' = [cur EXCEPT ![j] = "failed"]
       ELSE pc' = [pc EXCEPT ![j] = "thrown"] /\ UNCHANGED cur

\* updateOrderStatus, first half: `await prisma.order.update` succeeds
StoreUpdate(j) ==
    /\ pc[j] = "update"
    /\ store' = [store EXCEPT ![OrderOf(j)] =
                    UpdatedOrder(@, StatusOf(cur[j]), UpdateData(j, cur[j]))]
    /\ pc' = [pc EXCEPT ![j] = "broadcast"]
    /\ persisted' = [persisted EXCEPT ![j] = Append(@, StatusOf(cur[j]))]
    /\ everPersisted' = [everPersisted EXCEPT ![OrderOf(j)] = @ \cup {StatusOf(cur[j])}]
    /\ UNCHANGED <<nextId, ingressVars, jobs, cur, localVars, caught, fanoutVars,
                   recvVars, budgetVars, attemptNo, emitted, payloads, calls,
                   everBroadcast,
                   attemptFailed, failedWriteLost>>

\* mutant: the error of the store update is swallowed and the broadcast goes on
StoreUpdateFailIgnored(j) ==
    /\ pc[j] = "update"
    /\ storeFailures < MaxStoreFailures
    /\ storeFailures' = storeFailures + 1
    /\ pc' = [pc EXCEPT ![j] = "broadcast"]
    /\ UNCHANGED <<storeVars, ingressVars, jobs, cur, localVars, caught, fanoutVars,
                   recvVars, swapFailures, ghostVars>>

\* updateOrderStatus, first half: `await prisma.order.update` throws; inside the
\* try block the catch block takes over, inside the catch block the error leaves
\* processOrder
StoreUpdateFail(j) ==
    /\ pc[j] = "update"
    /\ storeFailures < MaxStoreFailures
    /\ storeFailures' = storeFailures + 1
    /\ IF cur[j] = "failed"
       THEN /\ pc' = [pc EXCEPT ![j] = "thrown"]
            /\ caught' = [caught EXCEPT ![j] = StoreErrorMessage]
            /\ failedWriteLost' = [failedWriteLost EXCEPT ![j] = TRUE]
            /\ UNCHANGED <<cur, attemptFailed>>
       ELSE /\ Catch(j, StoreErrorMessage)
            /\ UNCHANGED failedWriteLost
    /\ UNCHANGED <<storeVars, ingressVars, jobs, localVars, fanoutVars, recvVars,
                   swapFailures, attemptNo, emitted, payloads, calls, persisted,
                   everBroadcast,
                   everPersisted>>

\* mutant: processOrder goes from the routing result straight to `submitted`
AfterEmissionSkipsBuilding(em) ==
    CASE em = "pending" -> [pc |-> "update", cur |-> "routing"]
      [] em = "routing" -> [pc |-> "route", cur |-> "routing"]
      [] em = "routed" -> [pc |-> "update", cur |-> "submitted"]
      [] em = "building" -> [pc |-> "update", cur |-> "submitted"]
      [] em = "submitted" -> [pc |-> "swap", cur |-> "submitted"]
      [] em = "confirmed" -> [pc |-> "returned", cur |-> "confirmed"]
      [] OTHER -> [pc |-> "thrown", cur |-> "failed"]

\* mutant: processOrder throws after it has emitted `confirmed`
AfterEmissionThrowsAfterConfirmed(em) ==
    CASE em = "pending" -> [pc |-> "update", cur |-> "routing"]
      [] em = "routing" -> [pc |-> "route", cur |-> "routing"]
      [] em = "routed" -> [pc |-> "update", cur |-> "building"]
      [] em = "building" -> [pc |-> "update", cur |-> "submitted"]
      [] em = "submitted" -> [pc |-> "swap", cur |-> "submitted"]
      [] em = "confirmed" -> [pc |-> "thrown", cur |-> "confirmed"]
      [] OTHER -> [pc |-> "thrown", cur |-> "failed"]

\* mutant: processOrder calls executeSwap before it emits `submitted`
AfterEmissionSwapsEarly(em) ==
    CASE em = "pending" -> [pc |-> "update", cur |-> "routing"]
      [] em = "routing" -> [pc |-> "route", cur |-> "routing"]
      [] em = "routed" -> [pc |-> "update", cur |-> "building"]
      [] em = "building" -> [pc |-> "swap", cur |-> "building"]
      [] em = "submitted" -> [pc |-> "swap", cur |-> "submitted"]
      [] em = "confirmed" -> [pc |-> "returned", cur |-> "confirmed"]
      [] OTHER -> [pc |-> "thrown", cur |-> "failed"]

\* where processOrder goes after an emission, up to its next await
AfterEmission(em) ==
    CASE em = "pending" -> [pc |-> "update", cur |-> "routing"]
      [] em = "routing" -> [pc |-> "route", cur |-> "routing"]
      [] em = "routed" -> [pc |-> "update", cur |-> "building"]
      [] em = "building" -> [pc |-> "update", cur |-> "submitted"]
      [] em = "submitted" -> [pc |-> "swap", cur |-> "submitted"]
      [] em = "confirmed" -> [pc |-> "returned", cur |-> "confirmed"]
      [] OTHER -> [pc |-> "thrown", cur |-> "failed"]

\* what the log of an attempt keeps of a message handed to wsManager.broadcast
Emission(message) ==
    [status |-> message.status,
     quotes |-> /\ TruthyString(message.data.dex)
                /\ TruthyNumber(message.data.raydiumPrice)
                /\ TruthyNumber(message.data.meteoraPrice),
     error |-> message.data.error]

\* updateOrderStatus, second half: createStatusMessage and wsManager.broadcast,
\* then processOrder runs on to its next await
Broadcast(j) ==
    /\ pc[j] = "broadcast"
    /\ \E throwing \in SUBSET {ws \in RoomOf(OrderOf(j)) : readyState[ws] = "open"} :
          broadcast(OrderOf(j),
                    createStatusMessage(OrderOf(j), StatusOf(cur[j]), WsData(j, cur[j])),
                    throwing)
    /\ pc' = [pc EXCEPT ![j] = AfterEmission(cur[j]).pc]
    /\ cur' = [cur EXCEPT ![j] = AfterEmission(cur[j]).cur]
    /\ emitted' = [emitted EXCEPT ![j] = Append(@,
          Emission(createStatusMessage(OrderOf(j), StatusOf(cur[j]), WsData(j, cur[j]))))]
    /\ payloads' = [payloads EXCEPT ![j] = Append(@,
          createStatusMessage(OrderOf(j), StatusOf(cur[j]), WsData(j, cur[j])).data)]
    /\ everBroadcast' = [everBroadcast EXCEPT ![OrderOf(j)] = @ \cup {StatusOf(cur[j])}]
    /\ UNCHANGED <<storeVars, ingressVars, jobs, localVars, caught, budgetVars,
                   attemptNo, calls, persisted, everPersisted, attemptFailed,
                   failedWriteLost>>

\* `await dexRouter.compareAndRoute` returns
RouteWith(j, raydiumPrices, raydiumLiquidity, meteoraPrices, meteoraLiquidity) ==
    /\ pc[j] = "route"
    /\ \E rp \in raydiumPrices, rl \in raydiumLiquidity,
          mp \in meteoraPrices, ml \in meteoraLiquidity :
          routingResult' = [routingResult EXCEPT ![j] =
              compareAndRoute(getRaydiumQuote(rp, rl), getMeteorQuote(mp, ml),
                              jobs[j].data.amount)]
    /\ pc' = [pc EXCEPT ![j] = "update"]
    /\ cur' = [cur EXCEPT ![j] = "routed"]
    /\ calls' = [calls EXCEPT ![j].route = @ + 1]
    /\ UNCHANGED <<storeVars, ingressVars, jobs, swapResult, quotes, caught, fanoutVars,
                   recvVars, budgetVars, attemptNo, emitted, payloads, persisted,
                   everBroadcast, everPersisted, attemptFailed, failedWriteLost>>

Route(j) == RouteWith(j, RaydiumPrices, RaydiumLiquidity, MeteoraPrices, MeteoraLiquidity)

\* compareAndRoute step by step. The call builds the array of the two quote
\* promises, which makes both requests, and waits for both
StartQuotes(j) ==
    /\ pc[j] = "route"
    /\ quotes' = [quotes EXCEPT ![j] = StartedQuotes(jobs[j].attemptsMade)]
    /\ pc' = [pc EXCEPT ![j] = "quotes"]
    /\ calls' = [calls EXCEPT ![j].route = @ + 1]
    /\ UNCHANGED <<storeVars, ingressVars, jobs, cur, routingResult, swapResult, caught,
                   fanoutVars, recvVars, budgetVars, attemptNo, emitted, payloads,
                   persisted, everBroadcast, everPersisted, attemptFailed,
                   failedWriteLost>>

\* the delay of getRaydiumQuote has elapsed and its promise resolves
RaydiumQuoteArrives(j) ==
    /\ pc[j] = "quotes"
    /\ quotes[j].raydium.state = "pending"
    /\ \E rp \in RaydiumPrices, rl \in RaydiumLiquidity :
          quotes' = [quotes EXCEPT ![j].raydium =
                        DoneSlot(quotes[j].raydium.call, getRaydiumQuote(rp, rl))]
    /\ UNCHANGED <<storeVars, ingressVars, jobs, pc, cur, routingResult, swapResult,
                   caught, fanoutVars, recvVars, budgetVars, ghostVars>>

\* the delay of getMeteorQuote has elapsed and its promise resolves
MeteoraQuoteArrives(j) ==
    /\ pc[j] = "quotes"
    /\ quotes[j].meteora.state = "pending"
    /\ \E mp \in MeteoraPrices, ml \in MeteoraLiquidity :
          quotes' = [quotes EXCEPT ![j].meteora =
                        DoneSlot(quotes[j].meteora.call, getMeteorQuote(mp, ml))]
    /\ UNCHANGED <<storeVars, ingressVars, jobs, pc, cur, routingResult, swapResult,
                   caught, fanoutVars, recvVars, budgetVars, ghostVars>>

\* Promise.all has resolved: the decision is taken on the two quotes and
\* compareAndRoute returns to processOrder
Decide(j) ==
    /\ pc[j] = "quotes"
    /\ quotes[j].raydium.state = "done"
    /\ quotes[j].meteora.state = "done"
    /\ routingResult' = [routingResult EXCEPT ![j] =
          compareAndRoute(quotes[j].raydium.quote, quotes[j].meteora.quote,
                          jobs[j].data.amount)]
    /\ pc' = [pc EXCEPT ![j] = "update"]
    /\ cur' = [cur EXCEPT ![j] = "routed"]
    /\ UNCHANGED <<storeVars, ingressVars, jobs, swapResult, quotes, caught, fanoutVars,
                   recvVars, budgetVars, ghostVars>>

\* the same call with the quotes of the router on its own
RouteQuoted(j) ==
    RouteWith(j, RaydiumQuotePrices, RaydiumQuoteLiquidity,
              MeteoraQuotePrices, MeteoraQuoteLiquidity)

\* the same call with the quotes the two generators make for the tokens of
\* the job
RouteVaried(j) ==
    RouteWith(j,
        {RaydiumPrice(jobs[j].data.tokenIn, jobs[j].data.tokenOut, r) : r \in Randoms},
        {RaydiumLiquidityScore(jobs[j].data.tokenIn, jobs[j].data.tokenOut, r) :
            r \in Randoms},
        {MeteoraPrice(jobs[j].data.tokenIn, jobs[j].data.tokenOut, r) : r \in Randoms},
        {MeteoraLiquidityScore(r) : r \in Randoms})

\* mutant: the result of the swap is taken as a success whatever it says
SwapAcceptedAlways(result) == TRUE

\* `if (swapResult.success)`
SwapAccepted(result) == result.success

\* `await dexRouter.executeSwap` returns its result, a value in either case:
\* on success processOrder goes on to emit `confirmed`, otherwise it throws
SwapReturns(j, success, slip) ==
    /\ pc[j] = "swap"
    /\ swapResult' = [swapResult EXCEPT ![j] =
          executeSwap(j, jobs[j].attemptsMade, routingResult[j].selectedDex,
                      QuotedPrice(routingResult[j]), success, slip)]
    /\ IF SwapAccepted(swapResult'[j])
       THEN /\ pc' = [pc EXCEPT ![j] = "update"]
            /\ cur' = [cur EXCEPT ![j] = "confirmed"]
            /\ UNCHANGED <<caught, attemptFailed>>
       ELSE Catch(j, SwapErrorMessage)
    /\ calls' = [calls EXCEPT ![j].swap = @ + 1,
                              ![j].successes = IF success THEN @ + 1 ELSE @]
    /\ UNCHANGED <<storeVars, ingressVars, jobs, routingResult, quotes, fanoutVars, recvVars,
                   storeFailures, attemptNo, emitted, payloads, persisted,
                   everBroadcast,
                   everPersisted, failedWriteLost>>

\* ... with success = true
SwapSucceeds(j) ==
    /\ \E slip \in Slippages : SwapReturns(j, TRUE, slip)
    /\ UNCHANGED swapFailures

\* ... with success = false; nobody reads the slippage of a failed swap, so
\* one value stands for all
SwapFails(j) ==
    /\ swapFailures < MaxSwapFailures
    /\ swapFailures' = swapFailures + 1
    /\ SwapReturns(j, FALSE, Slippage(0))


\* ---------------------------------------------------------- specification
\* the pipeline: POST /api/orders/execute admits up to MaxOrders orders
Admit ==
    /\ nextId <= MaxOrders
    /\ \E body \in OrderInputs : PostCreate(body)

Pipeline ==
    \/ PostEnqueue
    \/ PostEnqueueFail
    \/ \E j \in JobIds : Dequeue(j)
    \/ \E j \in JobIds : StoreUpdate(j)
    \/ \E j \in JobIds : StoreUpdateFail(j)
    \/ \E j \in JobIds : Broadcast(j)
    \/ \E j \in JobIds : Route(j)
    \/ \E j \in JobIds : SwapSucceeds(j)
    \/ \E j \in JobIds : SwapFails(j)
    \/ \E j \in JobIds : JobCompleted(j)
    \/ \E j \in JobIds : JobFailed(j)
    \/ \E j \in JobIds : BackoffElapsed(j)

Next ==
    \/ Admit
    \/ Pipeline

Spec == Init /\ [][Next]_vars

\* the pipeline with up to MaxConcurrentOrders orders, whose jobs the worker runs
\* side by side
AdmitConcurrent ==
    /\ nextId <= MaxConcurrentOrders
    /\ \E body \in OrderInputs : PostCreate(body)

ConcurrentNext ==
    \/ AdmitConcurrent
    \/ Pipeline

ConcurrentSpec == Init /\ [][ConcurrentNext]_vars

\* the pipeline watched by clients: up to MaxSockets clients, each of which
\* connects to the room of an order whose id it got from POST /api/orders/execute,
\* and goes away
Clients ==
    \/ \E ws \in Sockets, o \in replied : WsConnect(ws, o)
    \/ \E ws \in Sockets : WsClose(ws)
    \/ \E ws \in Sockets, o \in OrderIds : WsCloseEvent(ws, o)

WatchedNext ==
    \/ Admit
    \/ Pipeline
    \/ Clients

WatchedSpec == Init /\ [][WatchedNext]_vars

\* the pipeline under fair scheduling: the event loop runs every continuation
\* that is ready, every call returns, and the queue hands out every waiting job
JobStep(j) ==
    \/ Dequeue(j)
    \/ StoreUpdate(j)
    \/ StoreUpdateFail(j)
    \/ Broadcast(j)
    \/ Route(j)
    \/ SwapSucceeds(j)
    \/ SwapFails(j)
    \/ JobCompleted(j)
    \/ JobFailed(j)
    \/ BackoffElapsed(j)

Fairness ==
    /\ WF_vars(PostEnqueue \/ PostEnqueueFail)
    /\ \A j \in JobIds : WF_vars(JobStep(j))

FairSpec == Init /\ [][Next]_vars /\ Fairness

\* updateOrderStatus, second half, seen from the fan-out: a status message of
\* some order id is broadcast, and `send` throws for some of the open sockets
Publish(orderId) ==
    /\ \E throwing \in SUBSET {ws \in RoomOf(orderId) : readyState[ws] = "open"} :
          broadcast(orderId, createStatusMessage(orderId, "pending", NoWsData), throwing)
    /\ UNCHANGED <<storeVars, ingressVars, jobs, pc, cur, localVars, caught, budgetVars,
                   ghostVars>>

\* the fan-out on its own: up to MaxSubscribers clients connect to the rooms
\* of up to MaxRooms order ids (GET /ws/:orderId takes any well-formed id) and
\* go away, status messages are broadcast to the rooms, and the server shuts
\* down
FanoutNext ==
    \/ \E ws \in Subscribers, o \in RoomIds : WsConnect(ws, o)
    \/ \E ws \in Subscribers : WsClose(ws)
    \/ \E ws \in Subscribers, o \in RoomIds : WsErrorEvent(ws, o)
    \/ \E ws \in Subscribers, o \in RoomIds : WsCloseEvent(ws, o)
    \/ \E o \in RoomIds : Publish(o)
    \/ Cleanup

FanoutSpec == InitFor(JobIds, Subscribers) /\ [][FanoutNext]_vars

\* the router on its own: POST /api/orders/execute has admitted one order of
\* some amount, and the worker takes its job as far as the swap; the quotes of
\* the two venues are drawn from the router's input sets
RouterInit ==
    \E amount \in RouterAmounts :
        /\ store = (1 :> NewOrder(1, OrderInput("SOL", "USDC", amount)))
        /\ nextId = 2
        /\ ingress = 0
        /\ replied = {1}
        /\ lastReply = 201
        /\ jobs = (1 :> NewJob(OrderJobData(NewOrder(1, OrderInput("SOL", "USDC", amount)))))
        /\ IdleFor(JobIds, Sockets)

RouterNext ==
    \/ \E j \in JobIds : Dequeue(j)
    \/ \E j \in JobIds : StoreUpdate(j)
    \/ \E j \in JobIds : Broadcast(j)
    \/ \E j \in JobIds : RouteQuoted(j)

RouterSpec == RouterInit /\ [][RouterNext]_vars

\* the two venues on their own: POST /api/orders/execute has admitted one
\* order that sells BONK, the token with the smallest base rates, where the
\* rounding of prices to 8 decimals shows; the worker takes its job through
\* routing and the swap, the quotes are made by the generators
VenueTokensOut == {"SOL", "USDC", "RAY", "T32"}

VenueInit ==
    \E tokenOut \in VenueTokensOut, amount \in Amounts :
        /\ store = (1 :> NewOrder(1, OrderInput("BONK", tokenOut, amount)))
        /\ nextId = 2
        /\ ingress = 0
        /\ replied = {1}
        /\ lastReply = 201
        /\ jobs = (1 :> NewJob(OrderJobData(NewOrder(1, OrderInput("BONK", tokenOut, amount)))))
        /\ IdleFor(JobIds, Sockets)

VenueNext ==
    \/ \E j \in JobIds : Dequeue(j)
    \/ \E j \in JobIds : StoreUpdate(j)
    \/ \E j \in JobIds : Broadcast(j)
    \/ \E j \in JobIds : RouteVaried(j)
    \/ \E j \in JobIds : SwapSucceeds(j)
    \/ \E j \in JobIds : JobCompleted(j)

VenueSpec == VenueInit /\ [][VenueNext]_vars

\* the ingress on its own: POST /api/orders/execute is called with bodies of
\* every kind, with tokens of every length around the limits, equal and
\* different, and amounts below, at and above the minimum; the worker takes
\* the jobs of the orders that were admitted
RequestTokens == {"SOL", "T31", "T32", "T50", "T51"}
RequestAmounts == {-1000, 0, 9, 10, 1500}

RequestBodies ==
    {OrderInput(tokenIn, tokenOut, amount) :
        tokenIn \in RequestTokens, tokenOut \in RequestTokens, amount \in RequestAmounts}

AdmitRequest ==
    /\ nextId <= MaxOrders
    /\ \E body \in RequestBodies : PostCreate(body)

IngressNext ==
    \/ \E body \in RequestBodies : PostReject(body)
    \/ AdmitRequest
    \/ PostEnqueue
    \/ PostEnqueueFail
    \/ \E j \in JobIds : Dequeue(j)
    \/ \E j \in JobIds : StoreUpdate(j)
    \/ \E j \in JobIds : Broadcast(j)

IngressSpec == Init /\ [][IngressNext]_vars

\* the pipeline with compareAndRoute step by step: the two quotes of a call
\* arrive in either order, and attempts whose swap fails are retried, so that
\* a call finds the quotes of the call before it
QuotingNext ==
    \/ Admit
    \/ PostEnqueue
    \/ \E j \in JobIds : Dequeue(j)
    \/ \E j \in JobIds : StoreUpdate(j)
    \/ \E j \in JobIds : Broadcast(j)
    \/ \E j \in JobIds : StartQuotes(j)
    \/ \E j \in JobIds : RaydiumQuoteArrives(j)
    \/ \E j \in JobIds : MeteoraQuoteArrives(j)
    \/ \E j \in JobIds : Decide(j)
    \/ \E j \in JobIds : SwapSucceeds(j)
    \/ \E j \in JobIds : SwapFails(j)
    \/ \E j \in JobIds : JobCompleted(j)
    \/ \E j \in JobIds : JobFailed(j)
    \/ \E j \in JobIds : BackoffElapsed(j)

QuotingSpec == Init /\ [][QuotingNext]_vars

\* the realtime channel in both directions: one order has been admitted and
\* the worker takes its job up to routing, broadcasting its statuses; up to
\* MaxSubscribers clients connect to the room of the order, send messages on
\* their sockets and go away
ChannelInit ==
    \E amount \in Amounts :
        /\ store = (1 :> NewOrder(1, OrderInput("SOL", "USDC", amount)))
        /\ nextId = 2
        /\ ingress = 0
        /\ replied = {1}
        /\ lastReply = 201
        /\ jobs = (1 :> NewJob(OrderJobData(NewOrder(1, OrderInput("SOL", "USDC", amount)))))
        /\ IdleFor(JobIds, Subscribers)

ChannelNext ==
    \/ \E j \in JobIds : Dequeue(j)
    \/ \E j \in JobIds : StoreUpdate(j)
    \/ \E j \in JobIds : Broadcast(j)
    \/ \E ws \in Subscribers, o \in replied : WsConnect(ws, o)
    \/ \E ws \in Subscribers, message \in InboundMessages : WsMessage(ws, message)
    \/ \E ws \in Subscribers : WsClose(ws)
    \/ \E ws \in Subscribers, o \in replied : WsCloseEvent(ws, o)

ChannelSpec == ChannelInit /\ [][ChannelNext]_vars

\* two orders side by side, watched: POST /api/orders/execute has admitted two
\* orders and the worker runs their jobs together; the first goes through its
\* attempts, those whose swap fails being retried, while the second gets as far
\* as compareAndRoute, whose quotes take arbitrarily long; up to MaxSockets
\* clients connect to the rooms of the two orders
TwoOrdersInit ==
    \E amount \in Amounts :
        /\ store = [o \in {1, 2} |-> NewOrder(o, OrderInput("SOL", "USDC", amount))]
        /\ nextId = 3
        /\ ingress = 0
        /\ replied = {1, 2}
        /\ lastReply = 201
        /\ jobs = [o \in {1, 2} |->
                      NewJob(OrderJobData(NewOrder(o, OrderInput("SOL", "USDC", amount))))]
        /\ IdleFor(JobIds, Sockets)

TwoOrdersNext ==
    \/ \E j \in {1, 2} : Dequeue(j)
    \/ \E j \in {1, 2} : StoreUpdate(j)
    \/ \E j \in {1, 2} : Broadcast(j)
    \/ Route(1)
    \/ SwapSucceeds(1)
    \/ SwapFails(1)
    \/ JobCompleted(1)
    \/ JobFailed(1)
    \/ BackoffElapsed(1)
    \/ \E ws \in Sockets, o \in replied : WsConnect(ws, o)

TwoOrdersSpec == TwoOrdersInit /\ [][TwoOrdersNext]_vars

\* the WebSocketManager as a component, called in any order: sockets are put
\* into rooms, also into several, and taken out of them, sockets go away,
\* status messages are broadcast and the manager is cleaned up
ManagerNext ==
    \/ \E ws \in Subscribers, o \in RoomIds : WsConnect(ws, o)
    \/ \E ws \in Subscribers, o \in RoomIds : JoinRoom(ws, o)
    \/ \E ws \in Subscribers, o \in RoomIds : LeaveRoom(ws, o)
    \/ \E ws \in Subscribers : WsClose(ws)
    \/ \E o \in RoomIds : Publish(o)
    \/ Cleanup

ManagerSpec == InitFor(JobIds, Subscribers) /\ [][ManagerNext]_vars

\* the queue under load: up to MaxQueuedOrders orders are admitted, the worker
\* takes their jobs, and every job that runs waits for its first store update,
\* which takes arbitrarily long; for the first MaxOrders orders it may also
\* fail, and the failed attempt frees its slot and is retried after the backoff
AdmitQueued ==
    /\ nextId <= MaxQueuedOrders
    /\ \E body \in OrderInputs : PostCreate(body)

CeilingNext ==
    \/ AdmitQueued
    \/ PostEnqueue
    \/ \E j \in QueuedIds : Dequeue(j)
    \/ \E j \in 1..MaxOrders : StoreUpdateFail(j)
    \/ \E j \in QueuedIds : JobFailed(j)
    \/ \E j \in QueuedIds : BackoffElapsed(j)

CeilingSpec == InitFor(QueuedIds, Sockets) /\ [][CeilingNext]_vars

\* ================================================================ claims
IsPrefix(s, t) == Len(s) <= Len(t) /\ \A i \in 1..Len(s) : s[i] = t[i]

Last(s) == s[Len(s)]

StatusesOf(s) == [i \in 1..Len(s) |-> s[i].status]

Bare(status) == [status |-> status, quotes |-> FALSE, error |-> Null]
Enriched(status) == [status |-> status, quotes |-> TRUE, error |-> Null]

\* the messages of an attempt up to the swap
UpToSubmitted ==
    <<Bare("pending"), Bare("routing"), Enriched("routing"), Enriched("building"),
      Enriched("submitted")>>

FullSuccess == Append(UpToSubmitted, Enriched("confirmed"))

IsFailed(e) == e.status = "failed" /\ ~e.quotes /\ e.error # Null

AttemptEnded(j) == pc[j] \in {"returned", "thrown"}

JobEnded(j) == j \in DOMAIN jobs /\ jobs[j].state \in {"completed", "failed"}

\* the messages of an attempt without a closing `failed`
Body(e) == IF e # <<>> /\ Last(e).status = "failed" THEN SubSeq(e, 1, Len(e) - 1) ELSE e

\* C1 as stated: the messages of every attempt are a prefix of pending, routing,
\* routing with quotes, building, submitted and then confirmed or failed, and an
\* attempt that has ended has emitted all six.
C1_AsStated ==
    \A j \in DOMAIN jobs :
        /\ \/ IsPrefix(emitted[j], FullSuccess)
           \/ /\ emitted[j] # <<>>
              /\ Body(emitted[j]) = UpToSubmitted
              /\ IsFailed(Last(emitted[j]))
        /\ AttemptEnded(j) => Len(emitted[j]) = Len(FullSuccess)

\* C1 amended: the messages of every attempt are, in this order, pending, routing,
\* routing with the venue and both quote prices, building, submitted, confirmed,
\* cut where the attempt failed, and followed by one failed only when the attempt
\* failed and is the final one. An attempt that returns has emitted all six; an
\* attempt that ends without a store failure has emitted at least the first five.
C1_EmissionOrder ==
    \A j \in DOMAIN jobs :
        /\ IsPrefix(Body(emitted[j]), FullSuccess)
        /\ Body(emitted[j]) # emitted[j] =>
              /\ IsFailed(Last(emitted[j]))
              /\ Body(emitted[j]) # FullSuccess
              /\ IsFinalAttempt(jobs[j])
              /\ attemptFailed[j]
        /\ pc[j] = "returned" => emitted[j] = FullSuccess
        /\ pc[j] = "thrown" /\ ~IsFinalAttempt(jobs[j]) => Body(emitted[j]) = emitted[j]
        /\ pc[j] = "thrown" /\ caught[j] = SwapErrorMessage =>
              /\ Body(emitted[j]) = UpToSubmitted
              /\ IsFinalAttempt(jobs[j]) => IsFailed(Last(emitted[j]))

\* a retry has run through all six messages
C1_Witness ==
    \E j \in DOMAIN jobs :
        jobs[j].attemptsMade >= 1 /\ pc[j] = "returned" /\ emitted[j] = FullSuccess

\* C2: while the attempt of a job is not the last permitted one, `failed` has
\* never been written to the store nor broadcast for its order, and a job that
\* completes (on whichever attempt) leaves the order confirmed with no `failed`
\* message ever sent.
C2_NoPrematureFailed ==
    \A j \in DOMAIN jobs :
        /\ jobs[j].attemptsMade + 1 < jobs[j].opts.attempts =>
              /\ store[OrderOf(j)].status # "failed"
              /\ store[OrderOf(j)].error = Null
              /\ "failed" \notin everBroadcast[OrderOf(j)]
              /\ "failed" \notin everPersisted[OrderOf(j)]
        /\ jobs[j].state = "completed" =>
              /\ store[OrderOf(j)].status = "confirmed"
              /\ "failed" \notin everBroadcast[OrderOf(j)]

\* a job failed on attempts 1 and 2 and completed on attempt 3
C2_Witness ==
    \E j \in DOMAIN jobs : jobs[j].state = "completed" /\ jobs[j].attemptsMade = 2

C4_FailuresAreReRaised ==
    \A j \in DOMAIN jobs :
        /\ attemptFailed[j] =>
              /\ pc[j] # "returned"
              /\ jobs[j].state # "completed"
              /\ pc[j] \in {"update", "broadcast"} => cur[j] = "failed"
        /\ pc[j] = "returned" =>
              /\ emitted[j] # <<>>
              /\ Last(emitted[j]).status = "confirmed"
              /\ store[OrderOf(j)].status = "confirmed"
        /\ jobs[j].state = "completed" => store[OrderOf(j)].status = "confirmed"

\* two attempts failed in the swap and were re-raised, and the third, final, one
\* leaves processOrder with the error of a failed store call
C4_Witness ==
    \E j \in DOMAIN jobs :
        /\ pc[j] = "thrown"
        /\ jobs[j].attemptsMade = 2
        /\ attemptFailed[j]
        /\ caught[j] = StoreErrorMessage
        /\ swapFailures >= 2

\* C5: in every attempt the statuses broadcast are, in order, the statuses that
\* were written to the store before, at most the latest write still waits for its
\* broadcast, and a failed write is followed by no broadcast; hence the last
\* status a subscriber received was persisted for its order before.
C5_PersistBeforeBroadcast ==
    /\ \A j \in DOMAIN jobs :
          /\ IsPrefix(StatusesOf(emitted[j]), persisted[j])
          /\ Len(persisted[j]) <= Len(emitted[j]) + 1
          /\ Len(persisted[j]) = Len(emitted[j]) + 1 <=> pc[j] = "broadcast"
          /\ everBroadcast[OrderOf(j)] \subseteq everPersisted[OrderOf(j)]
    /\ \A ws \in Sockets :
          recv[ws].att > 0 =>
             /\ recv[ws].last \in everPersisted[recv[ws].orderId]
             /\ recv[ws].att = attemptNo[recv[ws].orderId] =>
                   \E j \in DOMAIN jobs :
                      /\ OrderOf(j) = recv[ws].orderId
                      /\ \E i \in 1..Len(persisted[j]) : persisted[j][i] = recv[ws].last

\* a subscriber received `failed` from an attempt in which a store update failed
C5_Witness ==
    \E ws \in Sockets, j \in DOMAIN jobs :
        /\ recv[ws].orderId = OrderOf(j)
        /\ recv[ws].last = "failed"
        /\ caught[j] = StoreErrorMessage

\* C6 as stated: the persisted status of an order is at least as advanced as the
\* most advanced status any subscriber has received for it.
C6_AsStated ==
    \A ws \in Sockets :
        recv[ws].max >= 0 => Rank(store[recv[ws].orderId].status) >= recv[ws].max

\* C6 amended: the persisted status of an order is at least as advanced as the
\* most advanced status a subscriber has received from the latest attempt that
\* was started for the order (a retry sets the persisted status back to pending).
C6_AdvancedWithinAttempt ==
    \A ws \in Sockets :
        recv[ws].att > 0 /\ recv[ws].att = attemptNo[recv[ws].orderId] =>
            Rank(store[recv[ws].orderId].status) >= recv[ws].rank

\* a subscriber received a terminal status from the third attempt
C6_Witness ==
    \E ws \in Sockets :
        recv[ws].att = 3 /\ attemptNo[recv[ws].orderId] = 3 /\ recv[ws].rank = 4

\* C7: once the persisted status of an order is confirmed or failed, no step
\* changes the order record, and the only message still broadcast for the order is
\* the one that announces this terminal status.
C7_TerminalIsFinal ==
    [][\A j \in DOMAIN jobs :
          store[OrderOf(j)].status \in Terminal =>
             /\ store'[OrderOf(j)] = store[OrderOf(j)]
             /\ emitted'[j] # emitted[j] =>
                   /\ pc[j] = "broadcast"
                   /\ Len(emitted'[j]) = Len(emitted[j]) + 1
                   /\ Last(emitted'[j]).status = store[OrderOf(j)].status
                   /\ \A i \in 1..Len(emitted[j]) : emitted[j][i].status \notin Terminal
             /\ everBroadcast'[OrderOf(j)] \subseteq
                   everBroadcast[OrderOf(j)] \cup {store[OrderOf(j)].status}]_vars

\* the job of an order has ended after `failed` was persisted and broadcast
C7_Witness ==
    \E j \in DOMAIN jobs :
        /\ jobs[j].state = "failed"
        /\ store[OrderOf(j)].status = "failed"
        /\ "failed" \in everBroadcast[OrderOf(j)]
        /\ "submitted" \in everBroadcast[OrderOf(j)]

\* C8 as stated: every change of a persisted status goes forward in pending,
\* routing, building, submitted, confirmed, or to failed from routing, building or
\* submitted.
C8_AsStated ==
    [][\A o \in DOMAIN store :
          store'[o].status # store[o].status =>
             \/ /\ store[o].status \notin Terminal
                /\ store'[o].status # "failed"
                /\ Rank(store'[o].status) > Rank(store[o].status)
             \/ /\ store'[o].status = "failed"
                /\ store[o].status \in {"routing", "building", "submitted"}]_vars

\* C8 amended: every change of a persisted status is made by the job of the
\* order and is one step forward in pending, routing, building, submitted,
\* confirmed, or a move to failed from pending, routing, building or submitted in
\* the final attempt, or the reset to pending by the first update of a retry.
C8_StatusChanges ==
    [][\A o \in DOMAIN store :
          store'[o].status # store[o].status =>
             \E j \in DOMAIN jobs :
                /\ OrderOf(j) = o
                /\ pc[j] = "update"
                /\ store[o].status \notin Terminal
                /\ \/ /\ store'[o].status # "failed"
                      /\ Rank(store'[o].status) = Rank(store[o].status) + 1
                   \/ /\ store'[o].status = "failed"
                      /\ IsFinalAttempt(jobs[j])
                   \/ /\ store'[o].status = "pending"
                      /\ persisted[j] = <<>>
                      /\ jobs[j].attemptsMade >= 1]_vars

\* a retry has set the status back to pending after an attempt reached submitted
C8_Witness ==
    \E j \in DOMAIN jobs :
        /\ jobs[j].attemptsMade >= 1
        /\ persisted[j] = <<"pending">>
        /\ store[OrderOf(j)].status = "pending"
        /\ "submitted" \in everPersisted[OrderOf(j)]

C10_OneAttemptPerOrder ==
    /\ \A j \in DOMAIN jobs : j \in DOMAIN store /\ OrderOf(j) = j
    /\ \A o \in replied : o \in DOMAIN jobs
    /\ \A j1, j2 \in DOMAIN jobs : OrderOf(j1) = OrderOf(j2) => j1 = j2
    /\ \A o \in DOMAIN store :
          Cardinality({j \in DOMAIN jobs : OrderOf(j) = o /\ pc[j] # "idle"}) <= 1

\* the attempts of two different orders are in progress at the same time
C10_Witness ==
    \E j1, j2 \in DOMAIN jobs :
        /\ OrderOf(j1) # OrderOf(j2)
        /\ pc[j1] = "swap"
        /\ pc[j2] = "route"

\* C11: at any time at most CONCURRENCY (10) jobs are being processed by the
\* worker, however many jobs are waiting in the queue.
C11_AtMostTenInParallel ==
    Cardinality(Active) <= CONCURRENCY

\* ten jobs are being processed, one of them in its second attempt after its
\* first one freed the slot, and an eleventh job is waiting
C11_Witness ==
    /\ Cardinality(Active) = CONCURRENCY
    /\ \E j \in DOMAIN jobs : jobs[j].state = "waiting"
    /\ \E j \in Active : jobs[j].attemptsMade = 1

\* C12: broadcast(orderId, message) calls send exactly once on every socket
\* that is in the room of orderId and open at the time of the call and on no
\* other socket; whoever receives a status message was, when it was sent, an
\* open member of the room of the order id the message names.
C12_ExactlyTheOpenMembers ==
    /\ [](\A o \in RoomIds : \A ws \in DOMAIN readyState :
            SendCalls(o)[ws] =
                IF ws \in RoomOf(o) /\ readyState[ws] = "open" THEN 1 ELSE 0)
    /\ [][\A ws \in DOMAIN recv :
            recv'[ws] # recv[ws] =>
                /\ ws \in RoomOf(recv'[ws].orderId)
                /\ readyState[ws] = "open"]_vars

\* two open sockets in the rooms of two order ids: one has received the status
\* message of its order, the other, in the other room, has received nothing
C12_Witness ==
    \E a \in DOMAIN recv, b \in DOMAIN recv, o \in RoomIds, p \in RoomIds :
        /\ o # p
        /\ a \in RoomOf(o) /\ b \in RoomOf(p)
        /\ readyState[a] = "open" /\ readyState[b] = "open"
        /\ recv[a].orderId = o /\ recv[a].last = "pending"
        /\ recv[b] = NoRecv

\* C13: broadcast to an order id whose room has no subscribers (no room entry,
\* or an entry that is empty) calls send on nobody and leaves rooms and
\* connections as they are: a room count of 0 stays 0 and no room entry is
\* made for that order id.
C13_EmptyRoomBroadcastIsNoOp ==
    \A o \in RoomIds :
        RoomOf(o) = {} =>
            /\ \A ws \in DOMAIN readyState : SendCalls(o)[ws] = 0
            /\ Delivered(o, {}) = {}
            /\ BroadcastRooms(o, {}) = rooms
            /\ BroadcastConnections(o, {}) = allConnections
            /\ (getRoomCount = 0 => Cardinality(DOMAIN BroadcastRooms(o, {})) = 0)
            /\ (o \notin DOMAIN rooms => o \notin DOMAIN BroadcastRooms(o, {}))

\* an order id without a room entry next to an order id whose room has an open
\* subscriber that has been sent a message
C13_Witness ==
    \E o \in RoomIds, p \in RoomIds, ws \in DOMAIN recv :
        /\ o \notin DOMAIN rooms
        /\ ws \in RoomOf(p)
        /\ readyState[ws] = "open"
        /\ recv[ws].orderId = p

\* C14: a broadcast deletes from the room and from the tracked connections
\* every socket of the room that is not open at send time or whose send
\* throws, and keeps in the room every socket that is open and whose send
\* went through.
C14_DeadSubscribersAreDropped ==
    /\ [](\A o \in RoomIds :
            \A throwing \in SUBSET {ws \in RoomOf(o) : readyState[ws] = "open"} :
                \A ws \in RoomOf(o) :
                    IF readyState[ws] # "open" \/ ws \in throwing
                    THEN /\ ws \notin BroadcastRooms(o, throwing)[o]
                         /\ ws \notin BroadcastConnections(o, throwing)
                    ELSE ws \in BroadcastRooms(o, throwing)[o])
    /\ [][\A ws \in DOMAIN recv :
            recv'[ws] # recv[ws] =>
                /\ ws \in rooms'[recv'[ws].orderId]
                /\ \A w \in rooms[recv'[ws].orderId] :
                      /\ readyState[w] # "open" => w \notin rooms'[recv'[ws].orderId]
                      /\ w \notin rooms'[recv'[ws].orderId] => w \notin allConnections']_vars

\* after a broadcast to a room of two: the socket whose connection had gone is
\* in neither the room nor the tracked connections, while the open one is still
\* in the room and has the message
C14_Witness ==
    \E o \in DOMAIN rooms, gone \in DOMAIN readyState, ws \in DOMAIN readyState :
        /\ readyState[gone] = "closed" /\ o \in handlers[gone]
        /\ gone \notin rooms[o] /\ gone \notin allConnections
        /\ closeCode[gone] = NoNumber /\ ~shutdownStarted
        /\ readyState[ws] = "open" /\ ws \in rooms[o]
        /\ recv[ws].orderId = o

\* C15: when a broadcast removes the last subscriber of a room, the room entry
\* is removed too: the rooms counted by getRoomCount all have a subscriber.
C15_AsStated ==
    \A o \in DOMAIN rooms : getRoomClientCount(o) > 0

\* C16: leaveRoom(orderId, ws) is defined for every socket and every order id,
\* also when the socket is not in the room or the order id has no room, and a
\* second call in a row changes nothing; a call for a socket that is not in a
\* room that has other subscribers, or for an order id without a room, leaves
\* the rooms as they are.
C16_LeaveRoomIdempotent ==
    \A o \in RoomIds : \A ws \in DOMAIN readyState :
        LET f == [rooms |-> rooms, allConnections |-> allConnections]
            once == leaveRoom(f, o, ws)
            twice == leaveRoom(once, o, ws)
        IN /\ twice = once
           /\ DOMAIN once.rooms \subseteq DOMAIN rooms
           /\ once.allConnections \subseteq allConnections
           /\ (o \notin DOMAIN rooms \/ (ws \notin rooms[o] /\ rooms[o] # {}))
                 => once.rooms = rooms

\* the close event of a socket is still to come after its error event, or a
\* broadcast, has taken it out of its room, and another order id has no room:
\* leaveRoom is about to be called for a socket that is not in the room
C16_Witness ==
    \E ws \in DOMAIN readyState, o \in RoomIds, p \in RoomIds :
        /\ readyState[ws] = "closed"
        /\ o \in handlers[ws]
        /\ ws \notin RoomOf(o)
        /\ ws \notin allConnections
        /\ p \notin DOMAIN rooms
        /\ RoomOf(o) # {}

\* C17: cleanup() calls close(1000) on every tracked socket, so that none of
\* them is open afterwards and those that were open are closed with code
\* 1000, and clears rooms and connections: right after it both counts are 0;
\* the close and error callbacks that fire afterwards (each calling leaveRoom)
\* keep both counts at 0.
C17_CleanupClearsEverything ==
    /\ [][(~shutdownStarted /\ shutdownStarted') =>
            /\ Cardinality(DOMAIN rooms') = 0
            /\ Cardinality(allConnections') = 0
            /\ \A ws \in allConnections :
                  /\ readyState'[ws] # "open"
                  /\ readyState[ws] = "open" => closeCode'[ws] = NormalClosure]_vars
    /\ [][(shutdownStarted /\ getRoomCount = 0 /\ getConnectionCount = 0
           /\ readyState' = readyState) =>
            /\ Cardinality(DOMAIN rooms') = 0
            /\ Cardinality(allConnections') = 0]_vars

\* after the shutdown: two sockets were closed with code 1000, the close
\* callback of one of them has run and that of the other is still to come, and
\* both counts are 0
C17_Witness ==
    /\ shutdownStarted
    /\ getRoomCount = 0 /\ getConnectionCount = 0
    /\ \E a \in DOMAIN readyState, b \in DOMAIN readyState :
          /\ a # b
          /\ closeCode[a] = NormalClosure /\ readyState[a] = "closed" /\ handlers[a] = {}
          /\ closeCode[b] = NormalClosure /\ readyState[b] = "closed" /\ handlers[b] # {}

\* the jobs whose attempt has its routing result
Routed == {j \in DOMAIN jobs : routingResult[j].selectedDex # Null}

\* effective price: quoted price times (1 - fee), the fee being per mille
EffectivePrice(q) == q.price * (1000 - q.fee)

\* the two effective prices are less than 1% of the larger one apart
Similar(r, m) == (IF r >= m THEN r - m ELSE m - r) * 100 < (IF r >= m THEN r ELSE m)

\* C18: for an amount above 100, compareAndRoute selects a venue for its
\* liquidity exactly when the effective prices are less than 1% of the larger
\* one apart and the liquidity score of that venue is above 0.8 and above the
\* score of the other venue; otherwise it selects the venue with the strictly
\* higher effective price, and Raydium when the two are equal.
C18_LargeOrderRouting ==
    \A j \in Routed :
        LET rr == routingResult[j]
            r == EffectivePrice(rr.raydiumQuote)
            m == EffectivePrice(rr.meteoraQuote)
            rl == rr.raydiumQuote.liquidityScore
            ml == rr.meteoraQuote.liquidityScore
        IN jobs[j].data.amount > 100000 =>
            /\ (rr.reason = "liquidity" /\ rr.selectedDex = "Raydium")
                  <=> (Similar(r, m) /\ rl > 800 /\ rl > ml)
            /\ (rr.reason = "liquidity" /\ rr.selectedDex = "Meteora")
                  <=> (Similar(r, m) /\ ml > 800 /\ ml > rl)
            /\ rr.reason # "liquidity" =>
                  /\ r > m => rr.selectedDex = "Raydium"
                  /\ m > r => rr.selectedDex = "Meteora"
                  /\ r = m => rr.selectedDex = "Raydium"

\* an order of 101 units went to Meteora for its liquidity although the
\* effective price of Raydium was the higher one
C18_Witness ==
    \E j \in Routed :
        /\ jobs[j].data.amount = 100001
        /\ routingResult[j].reason = "liquidity"
        /\ routingResult[j].selectedDex = "Meteora"
        /\ EffectivePrice(routingResult[j].raydiumQuote)
              > EffectivePrice(routingResult[j].meteoraQuote)

\* C19: for an amount of at most 100, exactly 100 included, liquidity plays no
\* part: whatever the two liquidity scores, compareAndRoute selects the venue
\* with the higher effective price, Raydium when the two are equal.
C19_SmallOrderRouting ==
    \A j \in Routed :
        LET rr == routingResult[j]
            r == EffectivePrice(rr.raydiumQuote)
            m == EffectivePrice(rr.meteoraQuote)
        IN jobs[j].data.amount <= 100000 =>
            /\ rr.reason # "liquidity"
            /\ rr.selectedDex = IF r >= m THEN "Raydium" ELSE "Meteora"

\* an order of exactly 100 units went to Raydium for its price although the
\* prices were similar and Meteora had the liquidity that decides a large order
C19_Witness ==
    \E j \in Routed :
        LET rr == routingResult[j]
            r == EffectivePrice(rr.raydiumQuote)
            m == EffectivePrice(rr.meteoraQuote)
        IN /\ jobs[j].data.amount = 100000
           /\ r > m /\ Similar(r, m)
           /\ rr.meteoraQuote.liquidityScore > 800
           /\ rr.meteoraQuote.liquidityScore > rr.raydiumQuote.liquidityScore
           /\ rr.selectedDex = "Raydium"

\* C20: for every pair of quotes and every amount, the effective price of the
\* venue compareAndRoute selects is at least 0.99 times the effective price of
\* the other venue.
C20_SelectedWithinOnePercent ==
    \A j \in Routed :
        LET rr == routingResult[j]
            r == EffectivePrice(rr.raydiumQuote)
            m == EffectivePrice(rr.meteoraQuote)
        IN IF rr.selectedDex = "Raydium"
           THEN r * 100 >= m * 99
           ELSE m * 100 >= r * 99

\* Raydium was selected for its liquidity with an effective price below that
\* of Meteora
C20_Witness ==
    \E j \in Routed :
        /\ routingResult[j].selectedDex = "Raydium"
        /\ EffectivePrice(routingResult[j].raydiumQuote)
              < EffectivePrice(routingResult[j].meteoraQuote)

\* C21: every quote has a price above 0 and a liquidity score within [0, 1];
\* the Raydium quote has fee 0.003 and the Meteora quote fee 0.002, which is
\* less; the Raydium price is within 0.98 to 1.02 times the base rate of the
\* pair and the Meteora price within 0.97 to 1.02 times.
C21_QuoteRanges ==
    \A j \in Routed :
            LET rq == routingResult[j].raydiumQuote
                mq == routingResult[j].meteoraQuote
                baseRate == getBaseExchangeRate(jobs[j].data.tokenIn, jobs[j].data.tokenOut)
            IN /\ rq.price > 0 /\ mq.price > 0
               /\ rq.liquidityScore >= 0 /\ rq.liquidityScore <= 1000
               /\ mq.liquidityScore >= 0 /\ mq.liquidityScore <= 1000
               /\ rq.fee = 3 /\ mq.fee = 2 /\ mq.fee < rq.fee
               /\ rq.price * 1000 >= 980 * baseRate
               /\ rq.price * 1000 <= 1020 * baseRate
               /\ mq.price * 1000 >= 970 * baseRate
               /\ mq.price * 1000 <= 1020 * baseRate

\* BONK for SOL, base rate 0.0000001: both generators drew their lowest
\* multiplier, and the quotes, rounded to 8 decimals, are the base rate itself
C21_Witness ==
    \E j \in Routed :
        /\ jobs[j].data.tokenOut = "SOL"
        /\ getBaseExchangeRate(jobs[j].data.tokenIn, jobs[j].data.tokenOut) = 10
        /\ routingResult[j].raydiumQuote.price = 10
        /\ routingResult[j].meteoraQuote.price = 10
        /\ routingResult[j].raydiumQuote.liquidityScore = 850
        /\ routingResult[j].meteoraQuote.liquidityScore = 650

\* the swaps that returned success = true in the attempt in progress
Swapped == {j \in DOMAIN jobs : swapResult[j].success}

\* C22 as stated: the executed price lies within [0.995, 1.002] times the
\* quoted price.
C22_AsStated ==
    \A j \in Swapped :
        LET q == QuotedPrice(routingResult[j])
            e == swapResult[j].executedPrice
        IN e * 1000 >= 995 * q /\ e * 1000 <= 1002 * q

\* C22 amended: the slippage is between -0.5% and +0.2%, the executed price is
\* the quoted price times (1 + slippage) rounded to 8 decimals, so it is at
\* most half a unit of the 8th decimal off that product, and it lies within
\* [0.99, 1.01] times the quoted price, which for a quoted price of 100 is
\* [99, 101].
C22_ExecutedPriceRange ==
    \A j \in Swapped :
        LET q == QuotedPrice(routingResult[j])
            e == swapResult[j].executedPrice
            s == swapResult[j].slippage
            off == (e - q) * 1000000 - q * s
        IN /\ s >= -5000 /\ s <= 2000
           /\ 2 * off <= 1000000 /\ 2 * off >= -1000000
           /\ 2 * (e * 1000 - 995 * q) >= -1000
           /\ 2 * (e * 1000 - 1002 * q) <= 1000
           /\ e * 100 >= 99 * q /\ e * 100 <= 101 * q

\* BONK for RAY quoted at 0.0000198 and executed with slippage -0.4993%: the
\* product 0.00001970114 is returned as 0.0000197, below 0.995 times the quote
C22_Witness ==
    \E j \in Swapped :
        /\ QuotedPrice(routingResult[j]) = 1980
        /\ swapResult[j].slippage = -4993
        /\ swapResult[j].executedPrice = 1970
        /\ swapResult[j].executedPrice * 1000 < 995 * 1980

\* the swap of the attempt in progress returned success = false
SwapFailed(j) == swapResult[j] # NoSwap /\ ~swapResult[j].success

\* C23: a failed swap is a value, not an error: executeSwap returns a result
\* with success = false, and the worker takes such a result as the failure of
\* the attempt: it throws the swap error, which the queue retries while
\* attempts remain, and the attempt emits no confirmed and does not complete.
C23_FailedSwapFailsTheAttempt ==
    /\ [](\A j \in DOMAIN jobs :
            SwapFailed(j) =>
                /\ swapResult[j].txHash # NoTxHash
                /\ swapResult[j].dex = routingResult[j].selectedDex
                /\ attemptFailed[j]
                /\ caught[j] # Null
                /\ cur[j] # "confirmed"
                /\ pc[j] \notin {"swap", "returned"}
                /\ jobs[j].state # "completed"
                /\ store[OrderOf(j)].status # "confirmed"
                /\ \A i \in 1..Len(emitted[j]) : emitted[j][i].status # "confirmed")
    /\ [][\A j \in DOMAIN jobs :
            (pc[j] = "swap" /\ pc'[j] # "swap" /\ ~swapResult'[j].success) =>
                /\ caught'[j] = SwapErrorMessage
                /\ IF IsFinalAttempt(jobs[j])
                   THEN pc'[j] = "update" /\ cur'[j] = "failed"
                   ELSE pc'[j] = "thrown"]_vars
    /\ [][\A j \in DOMAIN jobs :
            (SwapFailed(j) /\ pc[j] = "thrown" /\ pc'[j] = "idle") =>
                jobs'[j].state = (IF jobs[j].attemptsMade + 1 < 3 THEN "delayed" ELSE "failed")]_vars

\* the first attempt of a job got a failed swap as a value, threw the swap
\* error without emitting confirmed, and the queue holds the job for a retry
C23_Witness ==
    \E j \in DOMAIN jobs :
        /\ SwapFailed(j)
        /\ swapResult[j].txHash # NoTxHash
        /\ caught[j] = SwapErrorMessage
        /\ jobs[j].state = "delayed"
        /\ jobs[j].attemptsMade = 1
        /\ Len(emitted[j]) = 5
        /\ emitted[j][5].status = "submitted"

\* positions of the confirmed messages among those of the attempt of job j
ConfirmedAt(j) == {i \in 1..Len(emitted[j]) : emitted[j][i].status = "confirmed"}

\* C24: confirmed is emitted only after executeSwap returned success = true in
\* the same attempt; the swap ran on the venue routing chose in that attempt,
\* at the price that venue quoted; the confirmed message carries the venue,
\* the transaction reference, the executed price and both quote prices of the
\* attempt, and the first three are persisted on the order.
C24_ConfirmedCarriesTheSwap ==
    \A j \in DOMAIN jobs :
        /\ "confirmed" \in {persisted[j][i] : i \in 1..Len(persisted[j])} =>
              swapResult[j].success
        /\ \A i \in ConfirmedAt(j) :
              LET rr == routingResult[j]
                  sr == swapResult[j]
                  q == IF rr.selectedDex = "Raydium"
                       THEN rr.raydiumQuote.price ELSE rr.meteoraQuote.price
                  off == (sr.executedPrice - q) * 1000000 - q * sr.slippage
              IN /\ sr.success
                 /\ sr.txHash = <<rr.selectedDex, j, jobs[j].attemptsMade>>
                 /\ rr.selectedDex \in {"Raydium", "Meteora"}
                 /\ sr.dex = rr.selectedDex
                 /\ 2 * off <= 1000000 /\ 2 * off >= -1000000
                 /\ payloads[j][i].dex = rr.selectedDex
                 /\ payloads[j][i].txHash = sr.txHash
                 /\ payloads[j][i].executedPrice = sr.executedPrice
                 /\ payloads[j][i].raydiumPrice = rr.raydiumQuote.price
                 /\ payloads[j][i].meteoraPrice = rr.meteoraQuote.price
                 /\ store[OrderOf(j)].status = "confirmed"
                 /\ store[OrderOf(j)].dex = rr.selectedDex
                 /\ store[OrderOf(j)].txHash = sr.txHash
                 /\ store[OrderOf(j)].price = sr.executedPrice

\* the second attempt of a job, after a failed swap in the first, was routed
\* to Meteora at 101.00 against 100.00 and confirmed with the swap of that
\* attempt
C24_Witness ==
    \E j \in DOMAIN jobs :
        /\ ConfirmedAt(j) = {6}
        /\ jobs[j].attemptsMade = 1
        /\ routingResult[j].selectedDex = "Meteora"
        /\ payloads[j][6].dex = "Meteora"
        /\ payloads[j][6].meteoraPrice = 10100
        /\ payloads[j][6].raydiumPrice = 10000
        /\ payloads[j][6].txHash = <<"Meteora", j, 1>>
        /\ store[OrderOf(j)].txHash = <<"Meteora", j, 1>>

\* positions of the messages of the attempt of job j that carry a payload of
\* routing: the enriched routing, building, submitted and confirmed messages
EnrichedAt(j) == {i \in 1..Len(emitted[j]) : emitted[j][i].quotes}

\* the payload of routing in the data of a message
RoutingPayload(data) ==
    [dex |-> data.dex, raydiumPrice |-> data.raydiumPrice, meteoraPrice |-> data.meteoraPrice]

\* C25: within one attempt the selected venue and the two quote prices in the
\* enriched routing message, the building message, the submitted message and
\* the confirmed message are identical, and are those of the one routing
\* decision of the attempt: the routing result is set once, between the bare
\* routing message and the enriched one, and not changed until the attempt ends.
C25_OnePayloadPerAttempt ==
    /\ [](\A j \in DOMAIN jobs :
            /\ EnrichedAt(j) =
                  {i \in 1..Len(emitted[j]) : i >= 3 /\ emitted[j][i].status # "failed"}
            /\ \A i \in EnrichedAt(j) :
                  /\ emitted[j][i].status =
                        <<"pending", "routing", "routing", "building", "submitted", "confirmed">>[i]
                  /\ RoutingPayload(payloads[j][i]) =
                        [dex |-> routingResult[j].selectedDex,
                         raydiumPrice |-> routingResult[j].raydiumQuote.price,
                         meteoraPrice |-> routingResult[j].meteoraQuote.price]
            /\ \A i, k \in EnrichedAt(j) :
                  RoutingPayload(payloads[j][i]) = RoutingPayload(payloads[j][k]))
    /\ [][\A j \in DOMAIN jobs :
            routingResult'[j] # routingResult[j] =>
                \/ /\ routingResult[j].selectedDex = Null
                   /\ routingResult'[j].selectedDex \in {"Raydium", "Meteora"}
                   /\ Len(emitted[j]) = 2 /\ emitted'[j] = emitted[j]
                \/ /\ routingResult'[j].selectedDex = Null
                   /\ emitted'[j] = <<>>
                   /\ pc[j] = "idle"]_vars

\* an attempt sent all four messages with the payload of its routing decision:
\* Raydium at 100.00 against Meteora at 99.00
C25_Witness ==
    \E j \in DOMAIN jobs :
        /\ EnrichedAt(j) = {3, 4, 5, 6}
        /\ \A i \in 3..6 :
              RoutingPayload(payloads[j][i]) =
                  [dex |-> "Raydium", raydiumPrice |-> 10000, meteoraPrice |-> 9900]
        /\ routingResult[j].selectedDex = "Raydium"

\* a request the claim says is rejected: equal tokens, an amount below 0.01 or
\* not positive, or a token shorter than 32 or longer than 50 characters
Rejectable(body) ==
    \/ body.tokenIn = body.tokenOut
    \/ body.amount < 10
    \/ body.amount <= 0
    \/ TokenLength(body.tokenIn) < 32 \/ TokenLength(body.tokenIn) > 50
    \/ TokenLength(body.tokenOut) < 32 \/ TokenLength(body.tokenOut) > 50

\* C26: a request with equal tokens, an amount below 0.01 or not positive, or a
\* token of fewer than 32 or more than 50 characters is answered with a
\* validation error before it enters the pipeline: the handler can only reject
\* it, the rejection changes neither the store nor the queue nor any job, and
\* so no order and no job the worker runs ever has such data.
C26_InvalidRequestsAreRejected ==
    /\ [](/\ \A body \in RequestBodies :
                Rejectable(body) =>
                    /\ ~ENABLED PostCreate(body)
                    /\ ingress = 0 => ENABLED PostReject(body)
          /\ \A o \in DOMAIN store : ~Rejectable(store[o])
          /\ \A j \in DOMAIN jobs : ~Rejectable(jobs[j].data)
          /\ \A j \in DOMAIN pc : pc[j] # "idle" => j \in DOMAIN jobs)
    /\ [][lastReply' = 400 /\ lastReply # 400 =>
            /\ store' = store /\ nextId' = nextId /\ ingress' = ingress
            /\ jobs' = jobs /\ replied' = replied
            /\ pc' = pc /\ cur' = cur]_vars

\* the first request was rejected: 400 was answered, and there is no order
\* and no job
C26_Witness ==
    /\ lastReply = 400
    /\ store = <<>>
    /\ nextId = 1
    /\ jobs = <<>>
    /\ \A j \in DOMAIN pc : pc[j] = "idle"

\* C27 as stated: an order is marked failed only when the 4th attempt of its
\* job has failed, after three retries.
C27_AsStated ==
    \A j \in DOMAIN jobs :
        (store[OrderOf(j)].status = "failed" \/ jobs[j].state = "failed") =>
            attemptNo[OrderOf(j)] = 4

\* C28 as stated: the queue waits 1000 ms before attempt 2 and 3000 ms before
\* attempt 3, three times as long for each further retry.
C28_AsStated ==
    \A j \in DOMAIN jobs :
        jobs[j].state = "delayed" =>
            /\ jobs[j].attemptsMade = 1 => jobs[j].delay = 1000
            /\ jobs[j].attemptsMade = 2 => jobs[j].delay = 3000
            /\ jobs[j].attemptsMade = 3 => jobs[j].delay = 9000

\* C29: in compareAndRoute both quote requests are outstanding before either
\* completes, the decision is taken only after both quotes have arrived, and
\* it is taken on the quotes of this call, never on a quote of an earlier one.
C29_BothQuotesThenDecision ==
    /\ [](\A j \in DOMAIN jobs :
            /\ pc[j] = "quotes" =>
                  /\ quotes[j].raydium.state \in {"pending", "done"}
                  /\ quotes[j].meteora.state \in {"pending", "done"}
                  /\ quotes[j].raydium.call = jobs[j].attemptsMade
                  /\ quotes[j].meteora.call = jobs[j].attemptsMade
                  /\ routingResult[j].selectedDex = Null
            /\ (pc[j] # "idle" /\ routingResult[j].selectedDex # Null) =>
                  /\ quotes[j].raydium = [state |-> "done", call |-> jobs[j].attemptsMade,
                                          quote |-> routingResult[j].raydiumQuote]
                  /\ quotes[j].meteora = [state |-> "done", call |-> jobs[j].attemptsMade,
                                          quote |-> routingResult[j].meteoraQuote])
    /\ [][\A j \in DOMAIN jobs :
            /\ (quotes[j].raydium.state # "done" /\ quotes'[j].raydium.state = "done") =>
                  quotes[j].meteora.state \in {"pending", "done"}
            /\ (quotes[j].meteora.state # "done" /\ quotes'[j].meteora.state = "done") =>
                  quotes[j].raydium.state \in {"pending", "done"}
            /\ (routingResult[j].selectedDex = Null /\ routingResult'[j].selectedDex # Null) =>
                  /\ quotes[j].raydium.state = "done"
                  /\ quotes[j].meteora.state = "done"]_vars

\* the second call of a job: the Meteora quote of this call has arrived at
\* 101.00 while the Raydium request is still outstanding, and the decision of
\* the first call, taken with Meteora at 99.00, is gone
C29_Witness ==
    \E j \in DOMAIN jobs :
        /\ pc[j] = "quotes"
        /\ jobs[j].attemptsMade = 1
        /\ quotes[j].raydium = [state |-> "pending", call |-> 1, quote |-> NoQuote]
        /\ quotes[j].meteora.state = "done"
        /\ quotes[j].meteora.call = 1
        /\ quotes[j].meteora.quote.price = 10100
        /\ routingResult[j] = NoRouting

\* C30: a message a subscriber sends on the realtime channel is acknowledged
\* to that subscriber only: the step in which an ack arrives changes no order,
\* no job, no room and no connection, gives no other socket an ack and no
\* socket a status message.
C30_AckOnlyToSender ==
    /\ [][\A ws \in DOMAIN acked :
            acked'[ws] # acked[ws] =>
                /\ readyState[ws] = "open"
                /\ acked'[ws] \in {"cancel", "ping"}
                /\ \A other \in DOMAIN acked \ {ws} : acked'[other] = acked[other]
                /\ recv' = recv
                /\ store' = store /\ nextId' = nextId
                /\ jobs' = jobs /\ pc' = pc /\ cur' = cur
                /\ rooms' = rooms /\ allConnections' = allConnections
                /\ readyState' = readyState /\ handlers' = handlers]_vars
    /\ [](\A ws \in DOMAIN acked : acked[ws] # Null => readyState[ws] # "new")

\* two subscribers are in the room of the same order and both got its pending
\* message; one of them sent a message and got its ack, the other got none
C30_Witness ==
    \E a, b \in DOMAIN acked :
        /\ a # b
        /\ 1 \in DOMAIN rooms
        /\ {a, b} \subseteq rooms[1]
        /\ recv[a].last = "pending" /\ recv[b].last = "pending"
        /\ acked[a] = "cancel"
        /\ acked[b] = Null
        /\ readyState[b] = "open"

\* the sockets that are in some room
InSomeRoom == UNION {rooms[o] : o \in DOMAIN rooms}

\* C31: the calls of the fan-out run one at a time, each to its end: a socket
\* is in a room exactly if it is among the connections, whatever joins, leaves,
\* broadcasts and the cleanup came before, and a broadcast treats each socket as
\* fully in the room or fully out of it: a socket that receives the message was
\* open, in the room of the message and among the connections, and a socket
\* that was open in a room and is no longer in it has left both collections.
C31_CallsRunOneAtATime ==
    /\ [](InSomeRoom = allConnections)
    /\ [][/\ \A ws \in Subscribers :
                recv'[ws] # recv[ws] =>
                    /\ readyState[ws] = "open"
                    /\ ws \in RoomOf(recv'[ws].orderId)
                    /\ ws \in allConnections
                    /\ ws \in rooms'[recv'[ws].orderId]
                    /\ ws \in allConnections'
          /\ \A ws \in Subscribers, o \in DOMAIN rooms :
                ws \in rooms[o] /\ (o \notin DOMAIN rooms' \/ ws \notin rooms'[o]) =>
                    ws \notin allConnections']_vars

\* two sockets are in the room of one order id; a broadcast reached one of them
\* and dropped the other, whose send threw
C31_Witness ==
    \E a \in Subscribers, b \in Subscribers, o \in DOMAIN rooms :
        /\ a # b
        /\ recv[a].orderId = o
        /\ recv[b].orderId # o
        /\ a \in rooms[o] /\ a \in allConnections
        /\ readyState[b] = "open" /\ o \in handlers[b]
        /\ b \notin rooms[o] /\ b \notin allConnections

\* C32: in every attempt compareAndRoute is called once, when pending and the
\* bare routing have been emitted and nothing else, and executeSwap at most once,
\* when submitted has been persisted and broadcast as the fifth message; an
\* attempt starts without a routing result and without a swap result, so every
\* message with quotes and every confirmed comes from the calls of its own
\* attempt, and an attempt that returns has made both calls.
C32_OneRoutingOneSwapPerAttempt ==
    /\ [](\A j \in DOMAIN jobs :
            /\ calls[j].route <= 1
            /\ calls[j].swap <= 1
            /\ calls[j].route = 0 =>
                  /\ routingResult[j] = NoRouting
                  /\ calls[j].swap = 0
                  /\ \A i \in 1..Len(emitted[j]) : ~emitted[j][i].quotes
            /\ calls[j].route = 1 /\ pc[j] # "quotes" => routingResult[j] # NoRouting
            /\ calls[j].swap = 0 =>
                  /\ swapResult[j] = NoSwap
                  /\ \A i \in 1..Len(emitted[j]) : emitted[j][i].status # "confirmed"
            /\ calls[j].swap = 1 =>
                  /\ swapResult[j] # NoSwap
                  /\ IsPrefix(UpToSubmitted, emitted[j])
                  /\ \E i \in 1..Len(persisted[j]) : persisted[j][i] = "submitted"
            /\ pc[j] = "returned" => calls[j].route = 1 /\ calls[j].swap = 1)
    /\ [][\A j \in DOMAIN jobs :
            /\ calls'[j].route > calls[j].route =>
                  /\ emitted[j] = <<Bare("pending"), Bare("routing")>>
                  /\ persisted[j] = <<"pending", "routing">>
                  /\ emitted'[j] = emitted[j]
            /\ calls'[j].swap > calls[j].swap =>
                  /\ emitted[j] = UpToSubmitted
                  /\ Last(persisted[j]) = "submitted"
                  /\ swapResult'[j].txHash = TxHash(routingResult[j].selectedDex, j,
                                                    jobs[j].attemptsMade)
            /\ routingResult'[j] # routingResult[j] =>
                  \/ calls'[j].route = calls[j].route + 1
                  \/ calls'[j].route = 0 /\ routingResult'[j] = NoRouting
            /\ swapResult'[j] # swapResult[j] =>
                  \/ calls'[j].swap = calls[j].swap + 1
                  \/ calls'[j].swap = 0 /\ swapResult'[j] = NoSwap]_vars

\* a third attempt has routed and swapped, once each, after two attempts that
\* did the same and failed in the swap
C32_Witness ==
    \E j \in DOMAIN jobs :
        /\ jobs[j].attemptsMade = 2
        /\ swapFailures = 2
        /\ pc[j] = "returned"
        /\ calls[j].route = 1
        /\ calls[j].swap = 1

\* C33 as stated: over all attempts of the job of an order, executeSwap returns
\* success = true at most once.
C33_AsStated ==
    \A j \in DOMAIN jobs : calls[j].successes <= 1

\* C34 as stated: when the queue has given up on a job, the persisted status of
\* its order is failed.
C34_AsStated ==
    \A j \in DOMAIN jobs :
        jobs[j].state = "failed" => store[OrderOf(j)].status = "failed"

\* C35: for every order at most one terminal status message is ever broadcast:
\* confirmed and failed are never both among the statuses broadcast for an order,
\* a terminal message is broadcast only for an order that has had none, and once
\* an order has had one, nothing more is broadcast for it.
C35_OneTerminalMessage ==
    /\ [](\A o \in DOMAIN store : ~(Terminal \subseteq everBroadcast[o]))
    /\ [][\A j \in DOMAIN jobs :
            emitted'[j] # emitted[j] /\ emitted'[j] # <<>> =>
                /\ everBroadcast[OrderOf(j)] \cap Terminal = {}
                /\ everBroadcast'[OrderOf(j)] =
                      everBroadcast[OrderOf(j)] \cup {Last(emitted'[j]).status}]_vars

\* the third attempt swapped, its confirmed update failed, and the order was
\* persisted and broadcast as failed; the queue has given up on the job
C35_Witness ==
    \E j \in DOMAIN jobs :
        /\ jobs[j].state = "failed"
        /\ calls[j].successes = 1
        /\ everBroadcast[OrderOf(j)] \cap Terminal = {"failed"}
        /\ Last(emitted[j]).status = "failed"

\* C36: in the store, an order has a transaction reference or a price only if
\* its status is confirmed, and an error text only if its status is failed.
C36_ResultFieldsMatchStatus ==
    \A o \in DOMAIN store :
        /\ store[o].txHash # NoTxHash \/ store[o].price # NoNumber =>
              store[o].status = "confirmed"
        /\ store[o].error # Null => store[o].status = "failed"

\* an order was confirmed by a retry after an attempt whose swap succeeded and
\* whose confirmed update failed: it has the reference and the price of the
\* retry and no error text
C36_Witness ==
    \E j \in DOMAIN jobs :
        /\ jobs[j].state = "completed"
        /\ calls[j].successes = 2
        /\ store[OrderOf(j)].status = "confirmed"
        /\ store[OrderOf(j)].txHash = swapResult[j].txHash
        /\ store[OrderOf(j)].txHash[3] = 1
        /\ store[OrderOf(j)].price = swapResult[j].executedPrice
        /\ store[OrderOf(j)].error = Null

\* the optional fields of an order that an update with `data` overwrites
Supplied(data) ==
    {f \in {"dex", "txHash", "price", "error"} :
        CASE f = "dex" -> TruthyString(data.dex)
          [] f = "txHash" -> TruthyTxHash(data.txHash)
          [] f = "price" -> TruthyNumber(data.price)
          [] OTHER -> TruthyString(data.error)}

C38_AsStated ==
    /\ allConnections = InSomeRoom
    /\ getConnectionCount = Cardinality(InSomeRoom)

\* C39: a send that throws during a broadcast stays inside the broadcast. The
\* step of processOrder that broadcasts goes on as after any emission, with no
\* error caught, the attempt not failed and the job as it was; every socket
\* that is open in the room either stays in the room and has received the
\* message or, its send having thrown, is out of the room and has not.
C39_ThrowingSendIsContained ==
    [][\A j \in DOMAIN jobs :
          pc[j] = "broadcast" /\ pc'[j] # "broadcast" =>
              /\ pc'[j] = AfterEmission(cur[j]).pc
              /\ caught' = caught
              /\ attemptFailed' = attemptFailed
              /\ jobs' = jobs
              /\ store' = store
              /\ Last(emitted'[j]).status = StatusOf(cur[j])
              /\ \A ws \in RoomOf(OrderOf(j)) :
                    readyState[ws] = "open" =>
                        IF ws \in rooms'[OrderOf(j)]
                        THEN /\ recv'[ws].orderId = OrderOf(j)
                             /\ recv'[ws].last = StatusOf(cur[j])
                             /\ recv'[ws].att = attemptNo[OrderOf(j)]
                        ELSE recv'[ws] = recv[ws]]_vars

\* two clients were open in the room of an order when pending was broadcast:
\* the send to one threw and it was dropped, the other received pending, and
\* processOrder has gone on to routing
C39_Witness ==
    \E j \in DOMAIN jobs, a \in Subscribers, b \in Subscribers :
        /\ a # b
        /\ readyState[a] = "open" /\ OrderOf(j) \in handlers[a]
        /\ a \notin RoomOf(OrderOf(j))
        /\ recv[a] = NoRecv
        /\ readyState[b] = "open" /\ b \in RoomOf(OrderOf(j))
        /\ recv[b].last = "pending"
        /\ emitted[j] = <<Bare("pending")>>
        /\ pc[j] = "update" /\ cur[j] = "routing"
        /\ ~attemptFailed[j]

\* C40 as stated: once POST /api/orders/execute has answered, every order in the
\* store has a job under its own id, and after an answer with an error no order
\* is without one.
C40_AsStated ==
    ingress = 0 =>
        /\ \A o \in DOMAIN store : o \in DOMAIN jobs /\ OrderOf(o) = store[o].id
        /\ lastReply \in {400, 500} => \A o \in DOMAIN store : o \in replied

====
